---- MODULE Spec2Model ----
(***************************************************************************)
(* Model of aws-manager's EC2 plugin engine (rust/src/ec2/plugins/mod.rs): *)
(* the Plugin catalog (from / as_str / rank / values / all / default, the  *)
(* Ord and PartialEq implementations) and the create function that turns a *)
(* list of plugin names into an init script.                               *)
(*                                                                         *)
(* Two specifications share the definitions:                               *)
(*   SpecCatalog  applies the catalog's pure functions to drawn inputs;    *)
(*   Spec         runs create on a drawn request.                          *)
(***************************************************************************)
EXTENDS Integers, Sequences, FiniteSets, TLC

(***************************************************************************)
(* Bounds of the model.                                                    *)
(***************************************************************************)
(* Longest request (plugins_str) that is enumerated. *)
MaxReq == 2

(* Largest set whose iteration orders are all sorted one by one. *)
MaxSort == 4

(* Most full batches in the data handed to put_metric_data. *)
MaxBatches == 3

(* Most calls of the CloudWatch manager in one behaviour. *)
MaxCalls == 2

(***************************************************************************)
(* u32 values.  TLC's integers are 32-bit signed, so a u32 is kept as two  *)
(* 16-bit limbs <<hi, lo>> = hi * 2^16 + lo, compared lexicographically.   *)
(***************************************************************************)
U32(hi, lo) == <<hi, lo>>
U32_MAX == <<65535, 65535>>
(* u32::MAX - k, for k below 2^16 (no borrow out of the low limb). *)
U32MaxMinus(k) == <<65535, 65535 - k>>
U32Less(a, b) == a[1] < b[1] \/ (a[1] = b[1] /\ a[2] < b[2])

(***************************************************************************)
(* enum Plugin: a known variant carries no payload, Unknown carries the    *)
(* string it was parsed from.                                              *)
(***************************************************************************)
Variant(name) == [v |-> name, s |-> ""]
Unknown(str) == [v |-> "Unknown", s |-> str]

Imds == Variant("Imds")
ProviderId == Variant("ProviderId")
Vercmp == Variant("Vercmp")
SetupLocalDisks == Variant("SetupLocalDisks")
MountBpfFs == Variant("MountBpfFs")
TimeSync == Variant("TimeSync")
SystemLimitBump == Variant("SystemLimitBump")
AwsCli == Variant("AwsCli")
SsmAgent == Variant("SsmAgent")
CloudwatchAgent == Variant("CloudwatchAgent")
StaticVolumeProvisioner == Variant("StaticVolumeProvisioner")
StaticIpProvisioner == Variant("StaticIpProvisioner")
Anaconda == Variant("Anaconda")
Python == Variant("Python")
Rust == Variant("Rust")
Go == Variant("Go")
Docker == Variant("Docker")
Containerd == Variant("Containerd")
Runc == Variant("Runc")
CniPlugins == Variant("CniPlugins")
AwsCfnHelper == Variant("AwsCfnHelper")
Saml2Aws == Variant("Saml2Aws")
AwsIamAuthenticator == Variant("AwsIamAuthenticator")
EcrCredentialHelper == Variant("EcrCredentialHelper")
EcrCredentialProvider == Variant("EcrCredentialProvider")
Kubelet == Variant("Kubelet")
Kubectl == Variant("Kubectl")
Helm == Variant("Helm")
Terraform == Variant("Terraform")
SshKeyWithEmail == Variant("SshKeyWithEmail")
Ena == Variant("Ena")
NvidiaDriver == Variant("NvidiaDriver")
NvidiaCudaToolkit == Variant("NvidiaCudaToolkit")
NvidiaContainerToolkit == Variant("NvidiaContainerToolkit")
AmdRadeonGpuDriver == Variant("AmdRadeonGpuDriver")
ProtobufCompiler == Variant("ProtobufCompiler")
Cmake == Variant("Cmake")
Gcc7 == Variant("Gcc7")
DevBark == Variant("DevBark")
DevFaissGpu == Variant("DevFaissGpu")
EksWorkerNodeAmiScratch == Variant("EksWorkerNodeAmiScratch")
EksWorkerNodeAmiReuse == Variant("EksWorkerNodeAmiReuse")
AmiInfo == Variant("AmiInfo")
ClusterInfo == Variant("ClusterInfo")
PostInitScript == Variant("PostInitScript")
CleanupImagePackages == Variant("CleanupImagePackages")
CleanupImageTmpDir == Variant("CleanupImageTmpDir")
CleanupImageAwsCredentials == Variant("CleanupImageAwsCredentials")
CleanupImageSshKeys == Variant("CleanupImageSshKeys")

(* Every variant of the enum except Unknown. *)
Known ==
    { Imds, ProviderId, Vercmp, SetupLocalDisks,
      MountBpfFs, TimeSync, SystemLimitBump, AwsCli,
      SsmAgent, CloudwatchAgent, StaticVolumeProvisioner, StaticIpProvisioner,
      Anaconda, Python, Rust, Go,
      Docker, Containerd, Runc, CniPlugins,
      AwsCfnHelper, Saml2Aws, AwsIamAuthenticator, EcrCredentialHelper,
      EcrCredentialProvider, Kubelet, Kubectl, Helm,
      Terraform, SshKeyWithEmail, Ena, NvidiaDriver,
      NvidiaCudaToolkit, NvidiaContainerToolkit, AmdRadeonGpuDriver, ProtobufCompiler,
      Cmake, Gcc7, DevBark, DevFaissGpu,
      EksWorkerNodeAmiScratch, EksWorkerNodeAmiReuse, AmiInfo, ClusterInfo,
      PostInitScript, CleanupImagePackages, CleanupImageTmpDir, CleanupImageAwsCredentials,
      CleanupImageSshKeys }

(* The serde names declared on the variants. *)
SerdeNames ==
    { "imds", "provider-id", "vercmp",
      "setup-local-disks", "mount-bpf-fs", "time-sync",
      "system-limit-bump", "aws-cli", "ssm-agent",
      "cloudwatch-agent", "static-volume-provisioner", "static-ip-provisioner",
      "anaconda", "python", "rust",
      "go", "docker", "containerd",
      "runc", "cni-plugins", "aws-cfn-helper",
      "saml2aws", "aws-iam-authenticator", "ecr-credential-helper",
      "ecr-credential-provider", "kubelet", "kubectl",
      "helm", "terraform", "ssh-key-with-email",
      "ena", "nvidia-driver", "nvidia-cuda-toolkit",
      "nvidia-container-toolkit", "amd-radeon-gpu-driver", "protobuf-compiler",
      "cmake", "gcc7", "dev-bark",
      "dev-faiss-gpu", "eks-worker-node-ami-scratch", "eks-worker-node-ami-reuse",
      "ami-info", "cluster-info", "post-init-script",
      "cleanup-image-packages", "cleanup-image-tmp-dir", "cleanup-image-aws-credentials",
      "cleanup-image-ssh-keys" }

(***************************************************************************)
(* impl From<&str> for Plugin: the arms of the match, then the catch-all.  *)
(***************************************************************************)
FromArms ==
    ("imds" :> Imds)
    @@ ("provider-id" :> ProviderId)
    @@ ("vercmp" :> Vercmp)
    @@ ("setup-local-disks" :> SetupLocalDisks)
    @@ ("mount-bpf-fs" :> MountBpfFs)
    @@ ("time-sync" :> TimeSync)
    @@ ("system-limit-bump" :> SystemLimitBump)
    @@ ("aws-cli" :> AwsCli)
    @@ ("ssm-agent" :> SsmAgent)
    @@ ("cloudwatch-agent" :> CloudwatchAgent)
    @@ ("static-volume-provisioner" :> StaticVolumeProvisioner)
    @@ ("static-ip-provisioner" :> StaticIpProvisioner)
    @@ ("anaconda" :> Anaconda)
    @@ ("python" :> Python)
    @@ ("rust" :> Rust)
    @@ ("go" :> Go)
    @@ ("docker" :> Docker)
    @@ ("containerd" :> Containerd)
    @@ ("runc" :> Runc)
    @@ ("cni-plugins" :> CniPlugins)
    @@ ("aws-cfn-helper" :> AwsCfnHelper)
    @@ ("saml2aws" :> Saml2Aws)
    @@ ("aws-iam-authenticator" :> AwsIamAuthenticator)
    @@ ("ecr-credential-helper" :> EcrCredentialHelper)
    @@ ("ecr-credential-provider" :> EcrCredentialProvider)
    @@ ("kubelet" :> Kubelet)
    @@ ("kubectl" :> Kubectl)
    @@ ("helm" :> Helm)
    @@ ("terraform" :> Terraform)
    @@ ("ssh-key-with-email" :> SshKeyWithEmail)
    @@ ("ena" :> Ena)
    @@ ("nvidia-driver" :> NvidiaDriver)
    @@ ("nvidia-cuda-toolkit" :> NvidiaCudaToolkit)
    @@ ("nvidia-container-toolkit" :> NvidiaContainerToolkit)
    @@ ("amd-radeon-gpu-driver" :> AmdRadeonGpuDriver)
    @@ ("protobuf-compiler" :> ProtobufCompiler)
    @@ ("cmake" :> Cmake)
    @@ ("gcc7" :> Gcc7)
    @@ ("dev-bark" :> DevBark)
    @@ ("dev-faiss-gpu" :> DevFaissGpu)
    @@ ("eks-worker-node-ami-scratch" :> EksWorkerNodeAmiScratch)
    @@ ("eks-worker-node-ami-reuse" :> EksWorkerNodeAmiReuse)
    @@ ("ami-info" :> AmiInfo)
    @@ ("cluster-info" :> ClusterInfo)
    @@ ("post-init-script" :> PostInitScript)
    @@ ("cleanup-image-packages" :> CleanupImagePackages)
    @@ ("cleanup-image-tmp-dir" :> CleanupImageTmpDir)
    @@ ("cleanup-image-aws-credentials" :> CleanupImageAwsCredentials)
    @@ ("cleanup-image-ssh-keys" :> CleanupImageSshKeys)

(* from with the arm of "python" yielding Anaconda (a copied arm). *)
from_copied_arm(s) ==
    IF s = "python" THEN Anaconda
    ELSE IF s \in DOMAIN FromArms THEN FromArms[s] ELSE Unknown(s)

from(s) == IF s \in DOMAIN FromArms THEN FromArms[s] ELSE Unknown(s)

(* impl FromStr for Plugin: Ok(Plugin::from(s)), Err is Infallible. *)
from_str(s) == [ok |-> TRUE, plugin |-> from(s)]

(***************************************************************************)
(* Plugin::as_str                                                          *)
(***************************************************************************)
AsStrArms ==
    (Imds :> "imds")
    @@ (ProviderId :> "provider-id")
    @@ (Vercmp :> "vercmp")
    @@ (SetupLocalDisks :> "setup-local-disks")
    @@ (MountBpfFs :> "mount-bpf-fs")
    @@ (TimeSync :> "time-sync")
    @@ (SystemLimitBump :> "system-limit-bump")
    @@ (AwsCli :> "aws-cli")
    @@ (SsmAgent :> "ssm-agent")
    @@ (CloudwatchAgent :> "cloudwatch-agent")
    @@ (StaticVolumeProvisioner :> "static-volume-provisioner")
    @@ (StaticIpProvisioner :> "static-ip-provisioner")
    @@ (Anaconda :> "anaconda")
    @@ (Python :> "python")
    @@ (Rust :> "rust")
    @@ (Go :> "go")
    @@ (Docker :> "docker")
    @@ (Containerd :> "containerd")
    @@ (Runc :> "runc")
    @@ (CniPlugins :> "cni-plugins")
    @@ (AwsCfnHelper :> "aws-cfn-helper")
    @@ (Saml2Aws :> "saml2aws")
    @@ (AwsIamAuthenticator :> "aws-iam-authenticator")
    @@ (EcrCredentialHelper :> "ecr-credential-helper")
    @@ (EcrCredentialProvider :> "ecr-credential-provider")
    @@ (Kubelet :> "kubelet")
    @@ (Kubectl :> "kubectl")
    @@ (Helm :> "helm")
    @@ (Terraform :> "terraform")
    @@ (SshKeyWithEmail :> "ssh-key-with-email")
    @@ (Ena :> "ena")
    @@ (NvidiaDriver :> "nvidia-driver")
    @@ (NvidiaCudaToolkit :> "nvidia-cuda-toolkit")
    @@ (NvidiaContainerToolkit :> "nvidia-container-toolkit")
    @@ (AmdRadeonGpuDriver :> "amd-radeon-gpu-driver")
    @@ (ProtobufCompiler :> "protobuf-compiler")
    @@ (Cmake :> "cmake")
    @@ (Gcc7 :> "gcc7")
    @@ (DevBark :> "dev-bark")
    @@ (DevFaissGpu :> "dev-faiss-gpu")
    @@ (EksWorkerNodeAmiScratch :> "eks-worker-node-ami-scratch")
    @@ (EksWorkerNodeAmiReuse :> "eks-worker-node-ami-reuse")
    @@ (AmiInfo :> "ami-info")
    @@ (ClusterInfo :> "cluster-info")
    @@ (PostInitScript :> "post-init-script")
    @@ (CleanupImagePackages :> "cleanup-image-packages")
    @@ (CleanupImageTmpDir :> "cleanup-image-tmp-dir")
    @@ (CleanupImageAwsCredentials :> "cleanup-image-aws-credentials")
    @@ (CleanupImageSshKeys :> "cleanup-image-ssh-keys")

(* as_str printing a fixed label for Unknown instead of its payload. *)
as_str_label(p) == IF p \in DOMAIN AsStrArms THEN AsStrArms[p] ELSE "unknown"

as_str(p) == IF p \in DOMAIN AsStrArms THEN AsStrArms[p] ELSE p.s

(***************************************************************************)
(* Plugin::rank                                                            *)
(***************************************************************************)
RankArms ==
    (Imds :> U32(0, 0))
    @@ (ProviderId :> U32(0, 1))
    @@ (Vercmp :> U32(0, 2))
    @@ (SetupLocalDisks :> U32(0, 3))
    @@ (MountBpfFs :> U32(0, 4))
    @@ (TimeSync :> U32(0, 5))
    @@ (SystemLimitBump :> U32(0, 6))
    @@ (AwsCli :> U32(0, 7))
    @@ (SsmAgent :> U32(0, 8))
    @@ (CloudwatchAgent :> U32(0, 9))
    @@ (StaticVolumeProvisioner :> U32(0, 20))
    @@ (StaticIpProvisioner :> U32(0, 21))
    @@ (Anaconda :> U32(0, 25))
    @@ (Python :> U32(0, 25))
    @@ (Rust :> U32(0, 26))
    @@ (Go :> U32(0, 27))
    @@ (Docker :> U32(0, 28))
    @@ (Containerd :> U32(0, 29))
    @@ (Runc :> U32(0, 30))
    @@ (CniPlugins :> U32(0, 31))
    @@ (AwsCfnHelper :> U32(0, 32))
    @@ (Saml2Aws :> U32(0, 33))
    @@ (AwsIamAuthenticator :> U32(0, 34))
    @@ (EcrCredentialHelper :> U32(0, 35))
    @@ (EcrCredentialProvider :> U32(0, 36))
    @@ (Kubelet :> U32(0, 37))
    @@ (Kubectl :> U32(0, 38))
    @@ (Helm :> U32(0, 50))
    @@ (Terraform :> U32(0, 51))
    @@ (SshKeyWithEmail :> U32(0, 68))
    @@ (Ena :> U32(0, 100))
    @@ (NvidiaDriver :> U32(0, 200))
    @@ (NvidiaCudaToolkit :> U32(0, 201))
    @@ (NvidiaContainerToolkit :> U32(0, 202))
    @@ (AmdRadeonGpuDriver :> U32(0, 300))
    @@ (ProtobufCompiler :> U32(0, 60000))
    @@ (Cmake :> U32(0, 60001))
    @@ (Gcc7 :> U32(0, 60002))
    @@ (DevBark :> U32(1, 14464))
    @@ (DevFaissGpu :> U32(1, 14465))
    @@ (EksWorkerNodeAmiScratch :> U32(1, 34454))
    @@ (EksWorkerNodeAmiReuse :> U32(1, 34455))
    @@ (AmiInfo :> U32MaxMinus(2000))
    @@ (ClusterInfo :> U32MaxMinus(1999))
    @@ (PostInitScript :> U32MaxMinus(1000))
    @@ (CleanupImagePackages :> U32MaxMinus(10))
    @@ (CleanupImageTmpDir :> U32MaxMinus(9))
    @@ (CleanupImageAwsCredentials :> U32MaxMinus(8))
    @@ (CleanupImageSshKeys :> U32MaxMinus(5))

(* rank with the ranks of the two bash-profile triggers exchanged. *)
rank_triggers_swapped(p) ==
    IF p = SystemLimitBump THEN RankArms[StaticVolumeProvisioner]
    ELSE IF p = StaticVolumeProvisioner THEN RankArms[SystemLimitBump]
    ELSE IF p \in DOMAIN RankArms THEN RankArms[p] ELSE U32_MAX

(* rank with Unknown falling back to 0 instead of u32::MAX. *)
rank_zero_fallback(p) == IF p \in DOMAIN RankArms THEN RankArms[p] ELSE U32(0, 0)

(* rank with PostInitScript ranked after the cleanup of packages. *)
rank_post_init_late(p) ==
    IF p = PostInitScript THEN U32MaxMinus(7)
    ELSE IF p \in DOMAIN RankArms THEN RankArms[p] ELSE U32_MAX

rank(p) == IF p \in DOMAIN RankArms THEN RankArms[p] ELSE U32_MAX

(***************************************************************************)
(* impl Ord / PartialOrd / PartialEq for Plugin: all three go through the  *)
(* rank.  Hash is derived, so it follows the variant and its payload.      *)
(***************************************************************************)
(* cmp with the two outcomes exchanged: the sort comes out descending. *)
cmp_reversed(a, b) ==
    IF U32Less(rank(a), rank(b)) THEN "Greater"
    ELSE IF U32Less(rank(b), rank(a)) THEN "Less"
    ELSE "Equal"

cmp(a, b) ==
    IF U32Less(rank(a), rank(b)) THEN "Less"
    ELSE IF U32Less(rank(b), rank(a)) THEN "Greater"
    ELSE "Equal"

eq(a, b) == cmp(a, b) = "Equal"

(***************************************************************************)
(* Plugin::values, Plugin::all, Plugin::default                            *)
(***************************************************************************)
values ==
    << "imds", "provider-id", "vercmp",
       "setup-local-disks", "mount-bpf-fs", "time-sync",
       "system-limit-bump", "aws-cli", "ssm-agent",
       "cloudwatch-agent", "static-volume-provisioner", "static-ip-provisioner",
       "anaconda", "python", "rust",
       "go", "docker", "containerd",
       "runc", "cni-plugins", "protobuf-compiler",
       "aws-cfn-helper", "saml2aws", "aws-iam-authenticator",
       "ecr-credential-helper", "ecr-credential-provider", "kubelet",
       "kubectl", "helm", "terraform",
       "ssh-key-with-email", "ena", "nvidia-driver",
       "nvidia-cuda-toolkit", "nvidia-container-toolkit", "amd-radeon-gpu-driver",
       "cmake", "gcc7", "dev-bark",
       "dev-faiss-gpu", "eks-worker-node-ami-scratch", "eks-worker-node-ami-reuse",
       "ami-info", "cluster-info", "post-init-script",
       "cleanup-image-packages", "cleanup-image-ssh-keys", "cleanup-image-aws-credentials" >>

all ==
    << as_str(Imds), as_str(ProviderId), as_str(Vercmp),
       as_str(SetupLocalDisks), as_str(MountBpfFs), as_str(TimeSync),
       as_str(SystemLimitBump), as_str(AwsCli), as_str(SsmAgent),
       as_str(CloudwatchAgent), as_str(StaticVolumeProvisioner), as_str(StaticIpProvisioner),
       as_str(Anaconda), as_str(Python), as_str(Rust),
       as_str(Go), as_str(Docker), as_str(Containerd),
       as_str(Runc), as_str(CniPlugins), as_str(AwsCfnHelper),
       as_str(Saml2Aws), as_str(AwsIamAuthenticator), as_str(EcrCredentialHelper),
       as_str(EcrCredentialProvider), as_str(Kubelet), as_str(Kubectl),
       as_str(Helm), as_str(Terraform), as_str(SshKeyWithEmail),
       as_str(Ena), as_str(NvidiaDriver), as_str(NvidiaCudaToolkit),
       as_str(NvidiaContainerToolkit), as_str(AmdRadeonGpuDriver), as_str(ProtobufCompiler),
       as_str(Cmake), as_str(Gcc7), as_str(DevBark),
       as_str(DevFaissGpu), as_str(EksWorkerNodeAmiScratch), as_str(EksWorkerNodeAmiReuse),
       as_str(AmiInfo), as_str(ClusterInfo), as_str(PostInitScript),
       as_str(CleanupImagePackages), as_str(CleanupImageTmpDir), as_str(CleanupImageAwsCredentials),
       as_str(CleanupImageSshKeys) >>

default ==
    << as_str(Imds), as_str(ProviderId), as_str(Vercmp),
       as_str(SetupLocalDisks), as_str(MountBpfFs), as_str(TimeSync),
       as_str(SystemLimitBump), as_str(SsmAgent), as_str(CloudwatchAgent),
       as_str(Anaconda), as_str(AwsCfnHelper) >>


(***************************************************************************)
(* create: arguments, locals and the returned value.                       *)
(* An Option<String> is <<>> for None and <<text>> for Some(text).         *)
(* The arguments create only hands on to the script generators (os_type,   *)
(* s3_bucket, id, region, the volume settings) are not branched on and are *)
(* left out.                                                               *)
(***************************************************************************)
None == <<>>
Some(x) == <<x>>
is_some(o) == o # None
is_none(o) == o = None
unwrap(o) == o[1]
Option(S) == {None} \cup {Some(x) : x \in S}

(***************************************************************************)
(* HashSet<Plugin>.  Hash is derived (variant and payload) while == is by  *)
(* rank, so two different values of equal rank are equal keys whose hashes *)
(* need not agree.  A lookup compares the key only with the entries whose  *)
(* hash tag it meets: the entry that is the same value always, an entry of *)
(* a different value only when the tags of the two happen to collide,      *)
(* which the table's random hasher decides.  coll is the set of pairs      *)
(* whose tags collide in this run.                                         *)
(***************************************************************************)
Hit(coll, e, x) == (e = x \/ {e, x} \in coll) /\ eq(e, x)
contains(coll, set, x) == \E e \in set : Hit(coll, e, x)
insert(coll, set, x) == IF contains(coll, set, x) THEN set ELSE set \cup {x}
remove(coll, set, x) == set \ {e \in set : Hit(coll, e, x)}

(* The values create inserts or looks up by name. *)
Probed ==
    { StaticVolumeProvisioner, StaticIpProvisioner, Anaconda, Python, NvidiaDriver,
      AwsCfnHelper, EcrCredentialProvider, Go, TimeSync, Imds, Ena,
      NvidiaCudaToolkit, DevBark, DevFaissGpu, EksWorkerNodeAmiScratch,
      EksWorkerNodeAmiReuse, PostInitScript, Rust, Kubectl, Helm,
      AmiInfo, ClusterInfo, CleanupImagePackages, CleanupImageTmpDir,
      CleanupImageAwsCredentials, CleanupImageSshKeys }

(* The pairs of different values that == takes for equal and that can meet
   in the table of a request: one of the pair is requested, the other is
   requested too or is looked up by name. *)
TiePairs(req) ==
    LET asked == {from(req[j]) : j \in DOMAIN req}
    IN  {pr \in {{a, b} : a \in asked, b \in asked \cup Probed} :
            \E a \in pr : \E b \in pr : a # b /\ eq(a, b)}

(***************************************************************************)
(* create, lines 487-496: parse every requested name into the set.         *)
(***************************************************************************)
RECURSIVE parse_all(_, _, _)
parse_all(coll, strs, set) ==
    IF strs = <<>> THEN set
    ELSE parse_all(coll, Tail(strs), insert(coll, set, from_str(Head(strs)).plugin))

(***************************************************************************)
(* create, lines 498-514: the static-IP rule, the anaconda/python rule and *)
(* the nvidia rule, in the order of the code.                              *)
(***************************************************************************)
(* The static IP rule acting on the switch alone. *)
static_ip_rule_switch_alone(coll, set, require_static_ip) ==
    IF require_static_ip
    THEN insert(coll, set, StaticIpProvisioner)
    ELSE set

static_ip_rule(coll, set, require_static_ip) ==
    IF contains(coll, set, StaticVolumeProvisioner) /\ require_static_ip
    THEN insert(coll, set, StaticIpProvisioner)
    ELSE set

anaconda_python_rule(coll, set) ==
    IF contains(coll, set, Anaconda) /\ contains(coll, set, Python)
    THEN remove(coll, set, Python)
    ELSE set

(* The nvidia rule inserting StaticVolumeProvisioner (a wrong variant). *)
nvidia_rule_wrong_variant(coll, set, is_nvidia) ==
    IF is_nvidia THEN insert(coll, set, StaticVolumeProvisioner) ELSE set

(* The nvidia rule leaving the set as requested. *)
nvidia_rule_as_requested(coll, set, is_nvidia) == set

nvidia_rule(coll, set, is_nvidia) ==
    IF is_nvidia THEN insert(coll, set, NvidiaDriver) ELSE set

(* The rules without the choice between anaconda and python. *)
resolve_keeps_python(coll, set, require_static_ip, is_nvidia) ==
    nvidia_rule(coll, static_ip_rule(coll, set, require_static_ip), is_nvidia)

resolve(coll, set, require_static_ip, is_nvidia) ==
    nvidia_rule(coll,
        anaconda_python_rule(coll, static_ip_rule(coll, set, require_static_ip)),
        is_nvidia)

(***************************************************************************)
(* io::Error values: the kind and the message format! builds.              *)
(***************************************************************************)
Error(kind, msg) == [kind |-> kind, msg |-> msg]
NoError == [kind |-> "", msg |-> ""]

ArchName(is_nvidia) == IF is_nvidia THEN "nvidia arch" ELSE "other arch"

(***************************************************************************)
(* create, lines 516-638: the validation rules.  Each is NoError when it   *)
(* passes; validate returns the error of the first one violated, in the    *)
(* order of the code.                                                      *)
(***************************************************************************)
aws_cfn_helper_rule(coll, set) ==
    IF contains(coll, set, AwsCfnHelper)
       /\ ~contains(coll, set, Anaconda) /\ ~contains(coll, set, Python)
    THEN Error("InvalidInput",
               "specified '" \o as_str(AwsCfnHelper) \o "' requires pip/python install plugin")
    ELSE NoError

ecr_credential_provider_rule(coll, set) ==
    IF contains(coll, set, EcrCredentialProvider) /\ ~contains(coll, set, Go)
    THEN Error("InvalidInput",
               "'" \o as_str(EcrCredentialProvider) \o "' requires '" \o as_str(Go) \o "' plugin")
    ELSE NoError

time_sync_rule(coll, set) ==
    IF contains(coll, set, TimeSync) /\ ~contains(coll, set, Imds)
    THEN Error("InvalidInput",
               "'" \o as_str(TimeSync) \o "' requires '" \o as_str(Imds) \o "' plugin")
    ELSE NoError

(* The ena rule asking for Go instead of Imds (a copied condition). *)
ena_rule_copied(coll, set) ==
    IF contains(coll, set, Ena) /\ ~contains(coll, set, Go)
    THEN Error("InvalidInput",
               "'" \o as_str(Ena) \o "' requires '" \o as_str(Imds) \o "' plugin")
    ELSE NoError

ena_rule(coll, set) ==
    IF contains(coll, set, Ena) /\ ~contains(coll, set, Imds)
    THEN Error("InvalidInput",
               "'" \o as_str(Ena) \o "' requires '" \o as_str(Imds) \o "' plugin")
    ELSE NoError

(* The nvidia-cuda-toolkit rule without its check of the arch. *)
nvidia_cuda_toolkit_rule_no_arch_check(coll, set, is_nvidia) ==
    IF ~contains(coll, set, NvidiaCudaToolkit) THEN NoError
    ELSE IF ~contains(coll, set, NvidiaDriver)
    THEN Error("InvalidInput",
               "specified '" \o as_str(NvidiaCudaToolkit) \o "' but no '"
                   \o as_str(NvidiaDriver) \o "'")
    ELSE NoError

(* lines 557-578 *)
nvidia_cuda_toolkit_rule(coll, set, is_nvidia) ==
    IF ~contains(coll, set, NvidiaCudaToolkit) THEN NoError
    ELSE IF ~is_nvidia
    THEN Error("InvalidInput",
               "specified '" \o as_str(NvidiaCudaToolkit) \o "' but arch type is '"
                   \o ArchName(is_nvidia) \o "' (not nvidia)")
    ELSE IF ~contains(coll, set, NvidiaDriver)
    THEN Error("InvalidInput",
               "specified '" \o as_str(NvidiaCudaToolkit) \o "' but no '"
                   \o as_str(NvidiaDriver) \o "'")
    ELSE NoError

(* lines 579-600: the same conditions again, on NvidiaCudaToolkit; only the
   second message names NvidiaContainerToolkit. *)
nvidia_cuda_toolkit_rule_again(coll, set, is_nvidia) ==
    IF ~contains(coll, set, NvidiaCudaToolkit) THEN NoError
    ELSE IF ~is_nvidia
    THEN Error("InvalidInput",
               "specified '" \o as_str(NvidiaCudaToolkit) \o "' but arch type is '"
                   \o ArchName(is_nvidia) \o "' (not nvidia)")
    ELSE IF ~contains(coll, set, NvidiaDriver)
    THEN Error("InvalidInput",
               "specified '" \o as_str(NvidiaContainerToolkit) \o "' but no '"
                   \o as_str(NvidiaDriver) \o "'")
    ELSE NoError

(* The dev-bark rule left out. *)
dev_bark_rule_absent(coll, set) == NoError

dev_bark_rule(coll, set) ==
    IF contains(coll, set, DevBark) /\ ~contains(coll, set, StaticVolumeProvisioner)
    THEN Error("InvalidInput",
               "specified '" \o as_str(DevBark) \o "' requires '"
                   \o as_str(StaticVolumeProvisioner) \o "'")
    ELSE NoError

dev_faiss_gpu_rule(coll, set) ==
    IF contains(coll, set, DevFaissGpu) /\ ~contains(coll, set, StaticVolumeProvisioner)
    THEN Error("InvalidInput",
               "specified '" \o as_str(DevFaissGpu) \o "' requires '"
                   \o as_str(StaticVolumeProvisioner) \o "'")
    ELSE NoError

(* The conflict rule left out. *)
eks_worker_node_ami_rule_absent(coll, set) == NoError

eks_worker_node_ami_rule(coll, set) ==
    IF contains(coll, set, EksWorkerNodeAmiScratch)
       /\ contains(coll, set, EksWorkerNodeAmiReuse)
    THEN Error("InvalidInput",
               "'" \o as_str(EksWorkerNodeAmiScratch) \o "' conflicts with '"
                   \o as_str(EksWorkerNodeAmiReuse) \o "'")
    ELSE NoError

(* The rules with the conflict rule tried first. *)
validation_rules_conflict_first(coll, set, is_nvidia) ==
    << eks_worker_node_ami_rule(coll, set),
       aws_cfn_helper_rule(coll, set),
       ecr_credential_provider_rule(coll, set),
       time_sync_rule(coll, set),
       ena_rule(coll, set),
       nvidia_cuda_toolkit_rule(coll, set, is_nvidia),
       nvidia_cuda_toolkit_rule_again(coll, set, is_nvidia),
       dev_bark_rule(coll, set),
       dev_faiss_gpu_rule(coll, set) >>

validation_rules(coll, set, is_nvidia) ==
    << aws_cfn_helper_rule(coll, set),
       ecr_credential_provider_rule(coll, set),
       time_sync_rule(coll, set),
       ena_rule(coll, set),
       nvidia_cuda_toolkit_rule(coll, set, is_nvidia),
       nvidia_cuda_toolkit_rule_again(coll, set, is_nvidia),
       dev_bark_rule(coll, set),
       dev_faiss_gpu_rule(coll, set),
       eks_worker_node_ami_rule(coll, set) >>

validate(coll, set, is_nvidia) ==
    LET r == validation_rules(coll, set, is_nvidia)
        bad == {j \in DOMAIN r : r[j] # NoError}
    IN  IF bad = {} THEN NoError
        ELSE r[CHOOSE j \in bad : \A o \in bad : j <= o]

(***************************************************************************)
(* create, lines 640-648: a supplied post-init script puts PostInitScript  *)
(* into the set.                                                           *)
(***************************************************************************)
(* The post-init rule putting PostInitScript in place of Imds. *)
post_init_rule_drops_imds(coll, set, post_init) ==
    IF is_some(post_init)
    THEN insert(coll, remove(coll, set, Imds), PostInitScript)
    ELSE set

(* The post-init rule leaving the set as requested. *)
post_init_rule_as_requested(coll, set, post_init) == set

post_init_rule(coll, set, post_init) ==
    IF is_some(post_init) THEN insert(coll, set, PostInitScript) ELSE set

(***************************************************************************)
(* create, lines 650-654: the set is copied into a Vec in the iteration    *)
(* order of the HashSet, which is arbitrary, and sorted with the stable    *)
(* Vec::sort by rank: the outcomes are the arrangements in ascending rank  *)
(* with values of equal rank in any order.                                 *)
(***************************************************************************)
(* The iteration orders of a HashSet holding S: every arrangement of it. *)
arrangements(S) ==
    {a \in [1..Cardinality(S) -> S] : {a[j] : j \in DOMAIN a} = S}

(* Vec::sort is stable: an element goes after every element that does not
   compare greater than it and was before it. *)
RECURSIVE sort(_)
sort(v) ==
    IF v = <<>> THEN <<>>
    ELSE LET s == sort(SubSeq(v, 1, Len(v) - 1))
             x == v[Len(v)]
             k == Cardinality({j \in DOMAIN s : cmp(s[j], x) # "Greater"})
         IN  SubSeq(s, 1, k) \o <<x>> \o SubSeq(s, k + 1, Len(s))

(* The sort putting the greatest first. *)
RECURSIVE sorted_orders_descending(_)
sorted_orders_descending(S) ==
    IF S = {} THEN {<<>>}
    ELSE UNION { {<<m>> \o t : t \in sorted_orders_descending(S \ {m})} :
                 m \in {x \in S : \A o \in S : cmp(o, x) # "Greater"} }

RECURSIVE sorted_orders(_)
sorted_orders(S) ==
    IF S = {} THEN {<<>>}
    ELSE UNION { {<<m>> \o t : t \in sorted_orders(S \ {m})} :
                 m \in {x \in S : \A o \in S : cmp(o, x) # "Less"} }

(***************************************************************************)
(* The script text.  contents is kept as the sequence of the pieces pushed *)
(* onto it: the separator banner, the text a generator returned (opaque:   *)
(* the generator's name and the arguments that depend on the request) and  *)
(* literal text.                                                           *)
(***************************************************************************)
B(b) == IF b THEN "true" ELSE "false"

Banner == [k |-> "banner", v |-> "", a |-> <<>>]
Generated(gen, args) == [k |-> "generated", v |-> gen, a |-> args]
Literal(text) == [k |-> "literal", v |-> text, a |-> <<>>]

INIT_SCRIPT_COMPLETE_MSG == "INIT SCRIPT COMPLETE"
CompleteComment == Literal("# " \o INIT_SCRIPT_COMPLETE_MSG)
CompleteEcho == Literal("echo " \o INIT_SCRIPT_COMPLETE_MSG)
PostInitHeader == Literal("# USER-DEFINED POST INIT SCRIPT")

(***************************************************************************)
(* What one stretch of create does, as a sequence of items:                *)
(*   call    let d = scripts::gen(args)?; push banner; push d              *)
(*   total   the same for a generator that returns no Result               *)
(*   push    contents.push_str(piece)                                      *)
(*   return  return Err(err)                                               *)
(*   panic   unwrap() of a None                                            *)
(***************************************************************************)
Call(gen, args) == [t |-> "call", gen |-> gen, args |-> args, piece |-> Banner, err |-> NoError]
Total(gen, args) == [t |-> "total", gen |-> gen, args |-> args, piece |-> Banner, err |-> NoError]
PushStr(piece) == [t |-> "push", gen |-> "", args |-> <<>>, piece |-> piece, err |-> NoError]
Return(err) == [t |-> "return", gen |-> "", args |-> <<>>, piece |-> Banner, err |-> err]
Panic == [t |-> "panic", gen |-> "", args |-> <<>>, piece |-> Banner, err |-> NoError]

Min(S) == CHOOSE x \in S : \A y \in S : x <= y

(* The calls that can return Err: the choices of which one does; 0 is none. *)
FailChoices(items) == {0} \cup {j \in DOMAIN items : items[j].t = "call"}

(* Where the run of items ends early (0: it does not), given that call f fails. *)
StopIdx(items, f) ==
    LET S == {j \in DOMAIN items : items[j].t \in {"return", "panic"} \/ j = f}
    IN  IF S = {} THEN 0 ELSE Min(S)

RECURSIVE Pieces(_, _)
Pieces(items, n) ==
    IF n = 0 THEN <<>>
    ELSE Pieces(items, n - 1) \o
         ( IF items[n].t \in {"call", "total"}
           THEN <<Banner, Generated(items[n].gen, items[n].args)>>
           ELSE IF items[n].t = "push" THEN <<items[n].piece>>
           ELSE <<>> )

RECURSIVE Invoked(_, _)
Invoked(items, n) ==
    IF n = 0 THEN <<>>
    ELSE Invoked(items, n - 1) \o
         ( IF items[n].t \in {"call", "total"}
           THEN <<[gen |-> items[n].gen, args |-> items[n].args]>>
           ELSE <<>> )

(* Run going on to call the generators after the one that failed. *)
Run_calls_the_rest(items, f) ==
    LET stop == StopIdx(items, f)
        done == IF stop = 0 THEN Len(items) ELSE stop - 1
    IN  [ status |-> IF stop = 0 THEN "ok"
                     ELSE IF items[stop].t = "panic" THEN "panic" ELSE "err",
          err    |-> IF stop = 0 THEN NoError
                     ELSE IF items[stop].t = "return" THEN items[stop].err
                     ELSE IF items[stop].t = "call"
                          THEN Error("Generator", items[stop].gen)
                     ELSE NoError,
          pieces |-> Pieces(items, done),
          calls  |-> Invoked(items, Len(items)) ]

(* The outcome of running items when call f is the one that fails. *)
Run(items, f) ==
    LET stop == StopIdx(items, f)
        done == IF stop = 0 THEN Len(items) ELSE stop - 1
    IN  [ status |-> IF stop = 0 THEN "ok"
                     ELSE IF items[stop].t = "panic" THEN "panic" ELSE "err",
          err    |-> IF stop = 0 THEN NoError
                     ELSE IF items[stop].t = "return" THEN items[stop].err
                     ELSE IF items[stop].t = "call"
                          THEN Error("Generator", items[stop].gen)
                     ELSE NoError,
          pieces |-> Pieces(items, done),
          calls  |-> Invoked(items, IF stop = 0 THEN Len(items) ELSE stop) ]

(***************************************************************************)
(* create, lines 661-1005: what the arm of the match does for plugin p.    *)
(***************************************************************************)
EpilogueArms ==
    { AmiInfo, ClusterInfo, PostInitScript, CleanupImagePackages,
      CleanupImageTmpDir, CleanupImageAwsCredentials, CleanupImageSshKeys }

(* The generator each main-pass arm calls (scripts::<name>). *)
MainArms ==
    (Imds :> "imds")
    @@ (ProviderId :> "provider_id")
    @@ (Vercmp :> "vercmp")
    @@ (SetupLocalDisks :> "setup_local_disks")
    @@ (MountBpfFs :> "mount_bpf_fs")
    @@ (TimeSync :> "time_sync")
    @@ (SystemLimitBump :> "system_limit_bump")
    @@ (AwsCli :> "aws_cli")
    @@ (SsmAgent :> "ssm_agent")
    @@ (CloudwatchAgent :> "cloudwatch_agent")
    @@ (StaticVolumeProvisioner :> "static_volume_provisioner")
    @@ (StaticIpProvisioner :> "static_ip_provisioner")
    @@ (Anaconda :> "anaconda")
    @@ (Python :> "python")
    @@ (Rust :> "rust")
    @@ (Go :> "go")
    @@ (Docker :> "docker")
    @@ (Containerd :> "containerd")
    @@ (Runc :> "runc")
    @@ (CniPlugins :> "cni_plugins")
    @@ (AwsCfnHelper :> "aws_cfn_helper")
    @@ (Saml2Aws :> "saml2aws")
    @@ (AwsIamAuthenticator :> "aws_iam_authenticator")
    @@ (EcrCredentialHelper :> "ecr_credential_helper")
    @@ (EcrCredentialProvider :> "ecr_credential_provider")
    @@ (Kubelet :> "kubelet")
    @@ (Kubectl :> "kubectl")
    @@ (Helm :> "helm")
    @@ (Terraform :> "terraform")
    @@ (SshKeyWithEmail :> "ssh_key_with_email")
    @@ (Ena :> "ena")
    @@ (NvidiaDriver :> "nvidia_driver")
    @@ (NvidiaCudaToolkit :> "nvidia_cuda_toolkit")
    @@ (NvidiaContainerToolkit :> "nvidia_container_toolkit")
    @@ (AmdRadeonGpuDriver :> "amd_radeon_gpu_driver")
    @@ (ProtobufCompiler :> "protobuf_compiler")
    @@ (Cmake :> "cmake")
    @@ (Gcc7 :> "gcc7")
    @@ (DevBark :> "dev_bark")
    @@ (DevFaissGpu :> "dev_faiss_gpu")
    @@ (EksWorkerNodeAmiScratch :> "eks_worker_node_ami_scratch")
    @@ (EksWorkerNodeAmiReuse :> "eks_worker_node_ami_reuse")

BashProfileTriggers == {SystemLimitBump, StaticVolumeProvisioner}

AnacondaPath(coll, set) ==
    IF contains(coll, set, Anaconda) THEN "/home/ubuntu/anaconda3/bin" ELSE ""

(* The flags update_bash_profile is called with. *)
BashProfileArgs(coll, set) ==
    << B(contains(coll, set, Anaconda)),
       B(contains(coll, set, Python)),
       B(contains(coll, set, Rust)),
       B(contains(coll, set, NvidiaCudaToolkit)),
       B(contains(coll, set, Go)),
       B(contains(coll, set, Kubectl)),
       B(contains(coll, set, Helm)),
       B(contains(coll, set, StaticVolumeProvisioner)) >>

(* The arguments of a main-pass generator that depend on the request. *)
ArmArgs(coll, set, p, email) ==
    CASE p = AwsCfnHelper -> <<AnacondaPath(coll, set)>>
      [] p = Cmake -> <<AnacondaPath(coll, set)>>
      [] p = DevBark ->
            <<AnacondaPath(coll, set), B(contains(coll, set, StaticVolumeProvisioner))>>
      [] p = DevFaissGpu -> <<B(contains(coll, set, StaticVolumeProvisioner))>>
      [] p = SshKeyWithEmail -> <<unwrap(email)>>
      [] OTHER -> <<>>

(* The main pass skipping a plugin it has no arm for instead of failing. *)
ArmItems_skip_unknown(coll, set, p, email, updated) ==
    IF p \in EpilogueArms \/ p \notin DOMAIN MainArms THEN <<>>
    ELSE IF p = SshKeyWithEmail /\ is_none(email)
    THEN <<Return(Error("Other",
                "plugin " \o as_str(SshKeyWithEmail) \o " specified but empty email"))>>
    ELSE <<Call(MainArms[p], ArmArgs(coll, set, p, email))>>
         \o ( IF p \in BashProfileTriggers /\ ~updated
              THEN <<Call("update_bash_profile", BashProfileArgs(coll, set))>>
              ELSE <<>> )

(* The main pass acting on ami-info instead of skipping it. *)
ArmItems_runs_ami_info(coll, set, p, email, updated) ==
    IF p = AmiInfo THEN <<Call("ami_info", <<>>)>>
    ELSE IF p \in EpilogueArms THEN <<>>
    ELSE IF p \notin DOMAIN MainArms
    THEN <<Return(Error("Other", "unknown plugin " \o as_str(p)))>>
    ELSE IF p = SshKeyWithEmail /\ is_none(email)
    THEN <<Return(Error("Other",
                "plugin " \o as_str(SshKeyWithEmail) \o " specified but empty email"))>>
    ELSE <<Call(MainArms[p], ArmArgs(coll, set, p, email))>>
         \o ( IF p \in BashProfileTriggers /\ ~updated
              THEN <<Call("update_bash_profile", BashProfileArgs(coll, set))>>
              ELSE <<>> )

(* The arms with the ssh-key-with-email arm not looking at the email
   before it unwraps it. *)
ArmItems_ignores_email(coll, set, p, email, updated) ==
    IF p \in EpilogueArms THEN <<>>
    ELSE IF p \notin DOMAIN MainArms
    THEN <<Return(Error("Other", "unknown plugin " \o as_str(p)))>>
    ELSE IF p = SshKeyWithEmail /\ is_none(email)
    THEN <<Panic>>
    ELSE <<Call(MainArms[p], ArmArgs(coll, set, p, email))>>
         \o ( IF p \in BashProfileTriggers /\ ~updated
              THEN <<Call("update_bash_profile", BashProfileArgs(coll, set))>>
              ELSE <<>> )

ArmItems(coll, set, p, email, updated) ==
    IF p \in EpilogueArms THEN <<>>
    ELSE IF p \notin DOMAIN MainArms
    THEN <<Return(Error("Other", "unknown plugin " \o as_str(p)))>>
    ELSE IF p = SshKeyWithEmail /\ is_none(email)
    THEN <<Return(Error("Other",
                "plugin " \o as_str(SshKeyWithEmail) \o " specified but empty email"))>>
    ELSE <<Call(MainArms[p], ArmArgs(coll, set, p, email))>>
         \o ( IF p \in BashProfileTriggers /\ ~updated
              THEN <<Call("update_bash_profile", BashProfileArgs(coll, set))>>
              ELSE <<>> )

(***************************************************************************)
(* The epilogue with one step moved or dropped, v naming which.            *)
(***************************************************************************)
EpilogueItemsVariant(coll, set, updated, key_id, access_key, post_init, v) ==
    LET ami == IF contains(coll, set, AmiInfo)
               THEN <<Call("ami_info", <<>>)>> ELSE <<>>
        cluster == IF contains(coll, set, ClusterInfo)
                   THEN <<Total("cluster_info",
                                <<B(contains(coll, set, StaticVolumeProvisioner))>>)>>
                   ELSE <<>>
        packages == IF contains(coll, set, CleanupImagePackages)
                    THEN <<Call("cleanup_image_packages", <<>>)>> ELSE <<>>
        credentials == IF contains(coll, set, CleanupImageAwsCredentials)
                       THEN <<Call("cleanup_image_aws_credentials", <<>>)>> ELSE <<>>
    IN ( IF ~updated
         THEN <<Call("update_bash_profile", BashProfileArgs(coll, set))>>
         ELSE <<>> )
    \o ( IF is_some(key_id)
         THEN ( IF is_some(access_key)
                THEN <<Call("aws_key", <<unwrap(key_id), unwrap(access_key)>>)>>
                ELSE <<Panic>> )
         ELSE <<>> )
    \o ( IF v = "cluster_info_first" THEN cluster \o ami ELSE ami \o cluster )
    \o ( IF contains(coll, set, PostInitScript)
         THEN <<PushStr(Banner), PushStr(PostInitHeader),
                IF is_some(post_init) THEN PushStr(Literal(unwrap(post_init))) ELSE Panic>>
         ELSE <<>> )
    \o ( IF v = "packages_after_marker" THEN <<>> ELSE packages )
    \o ( IF contains(coll, set, CleanupImageTmpDir)
         THEN <<Call("cleanup_image_tmp_dir", <<>>)>> ELSE <<>> )
    \o ( IF v = "credentials_after_marker" THEN <<>> ELSE credentials )
    \o ( IF v = "no_marker" THEN <<PushStr(Banner)>>
         ELSE <<PushStr(Banner), PushStr(CompleteComment), PushStr(CompleteEcho)>> )
    \o ( IF v = "packages_after_marker" THEN packages ELSE <<>> )
    \o ( IF v = "credentials_after_marker" THEN credentials ELSE <<>> )
    \o ( IF contains(coll, set, CleanupImageSshKeys)
         THEN <<Call("cleanup_image_ssh_keys", <<>>)>> ELSE <<>> )
    \o <<PushStr(Banner)>>

(* cleanup_image_packages run after the completion marker. *)
EpilogueItems_packages_after_marker(coll, set, updated, key_id, access_key, post_init) ==
    EpilogueItemsVariant(coll, set, updated, key_id, access_key, post_init,
                         "packages_after_marker")

(* The completion marker left out. *)
EpilogueItems_no_marker(coll, set, updated, key_id, access_key, post_init) ==
    EpilogueItemsVariant(coll, set, updated, key_id, access_key, post_init,
                         "no_marker")

(* cleanup_image_aws_credentials run after the completion marker. *)
EpilogueItems_credentials_after_marker(coll, set, updated, key_id, access_key, post_init) ==
    EpilogueItemsVariant(coll, set, updated, key_id, access_key, post_init,
                         "credentials_after_marker")

(* cluster_info run before ami_info. *)
EpilogueItems_cluster_info_first(coll, set, updated, key_id, access_key, post_init) ==
    EpilogueItemsVariant(coll, set, updated, key_id, access_key, post_init,
                         "cluster_info_first")

(***************************************************************************)
(* create, lines 1007-1089: everything after the main pass.                *)
(***************************************************************************)
EpilogueItems(coll, set, updated, key_id, access_key, post_init) ==
       ( IF ~updated
         THEN <<Call("update_bash_profile", BashProfileArgs(coll, set))>>
         ELSE <<>> )
    \o ( IF is_some(key_id)
         THEN ( IF is_some(access_key)
                THEN <<Call("aws_key", <<unwrap(key_id), unwrap(access_key)>>)>>
                ELSE <<Panic>> )
         ELSE <<>> )
    \o ( IF contains(coll, set, AmiInfo) THEN <<Call("ami_info", <<>>)>> ELSE <<>> )
    \o ( IF contains(coll, set, ClusterInfo)
         THEN <<Total("cluster_info", <<B(contains(coll, set, StaticVolumeProvisioner))>>)>>
         ELSE <<>> )
    \o ( IF contains(coll, set, PostInitScript)
         THEN <<PushStr(Banner), PushStr(PostInitHeader),
                IF is_some(post_init) THEN PushStr(Literal(unwrap(post_init))) ELSE Panic>>
         ELSE <<>> )
    \o ( IF contains(coll, set, CleanupImagePackages)
         THEN <<Call("cleanup_image_packages", <<>>)>> ELSE <<>> )
    \o ( IF contains(coll, set, CleanupImageTmpDir)
         THEN <<Call("cleanup_image_tmp_dir", <<>>)>> ELSE <<>> )
    \o ( IF contains(coll, set, CleanupImageAwsCredentials)
         THEN <<Call("cleanup_image_aws_credentials", <<>>)>> ELSE <<>> )
    \o <<PushStr(Banner), PushStr(CompleteComment), PushStr(CompleteEcho)>>
    \o ( IF contains(coll, set, CleanupImageSshKeys)
         THEN <<Call("cleanup_image_ssh_keys", <<>>)>> ELSE <<>> )
    \o <<PushStr(Banner)>>

(* to_strings, lines 1092-1098 *)
to_strings(plugins) == [j \in DOMAIN plugins |-> as_str(plugins[j])]

(***************************************************************************)
(* State.  The cat_* group belongs to SpecCatalog, the rest to Spec.       *)
(***************************************************************************)
VARIABLES
    cat_pc,       \* position in the catalog exercise
    str_in,       \* a string handed to Plugin::from_str
    plugin_in,    \* a Plugin value handed to as_str / rank / cmp
    parsed,       \* Plugin::from_str(str_in)
    printed,      \* parsed.as_str()
    str_of,       \* plugin_in.as_str()
    reparsed,     \* Plugin::from(str_of)
    compared,     \* ranks, cmp and == of (plugin_in, parsed)
    listed,       \* Plugin::values() and Plugin::all()
    \* arguments of create
    arch_is_nvidia,                \* arch_type.is_nvidia()
    plugins_str,
    require_static_ip_provisioner,
    ssh_key_email,
    aws_secret_key_id,
    aws_secret_access_key,
    post_init_script,
    \* the tag collisions of this run's HashSet hasher
    hash_coll,
    \* locals of create
    pc,
    plugins_set,
    plugins,
    idx,                           \* position of the main loop in plugins
    contents,
    updated_bash_profile,
    \* history: the generators invoked so far, and the set validation saw
    calls,
    \* what create returned
    result,
    \* the CloudWatch manager and the service behind it
    cw_pc,        \* where the caller of the manager is
    cw_calls,     \* calls of the manager made so far
    cw_op,        \* the call being made, or made last
    cw_data,      \* data handed to put_metric_data
    cw_batch,     \* position of the loop over the chunks
    cw_requests,  \* the metric data of each PutMetricData request sent, in order
    cw_resp,      \* the answer to the last request
    cw_groups,    \* the log groups the service holds
    cw_result     \* what the call returned

catVars ==
    <<cat_pc, str_in, plugin_in, parsed, printed, str_of, reparsed, compared, listed>>

argVars ==
    <<arch_is_nvidia, plugins_str, require_static_ip_provisioner, ssh_key_email,
      aws_secret_key_id, aws_secret_access_key, post_init_script, hash_coll>>

localVars == <<pc, plugins_set, plugins, idx, contents, updated_bash_profile>>

createVars == <<argVars, localVars, calls, result>>

cwVars ==
    <<cw_pc, cw_calls, cw_op, cw_data, cw_batch, cw_requests, cw_resp, cw_groups,
      cw_result>>

vars == <<catVars, createVars, cwVars>>

(***************************************************************************)
(* Inputs that are enumerated.                                             *)
(***************************************************************************)
(* Strings that are no plugin name: empty, wrong case, padded, made up. *)
UnknownStrs == {"", "IMDS", "imds ", "my-plugin"}

StrInputs == SerdeNames \cup UnknownStrs
PluginInputs == Known \cup {Unknown(u) : u \in UnknownStrs}

(* The names a request is drawn from: every plugin a rule of create names,
   one plugin with no rule (ssm-agent) and two unknown names. *)
ReqVocab ==
    { "imds", "time-sync", "ena", "ssm-agent", "system-limit-bump",
      "static-volume-provisioner", "static-ip-provisioner",
      "anaconda", "python", "go", "aws-cfn-helper", "ecr-credential-provider",
      "ssh-key-with-email", "nvidia-driver", "nvidia-cuda-toolkit",
      "nvidia-container-toolkit", "dev-bark", "dev-faiss-gpu",
      "eks-worker-node-ami-scratch", "eks-worker-node-ami-reuse",
      "ami-info", "cluster-info", "post-init-script",
      "cleanup-image-packages", "cleanup-image-tmp-dir",
      "cleanup-image-aws-credentials", "cleanup-image-ssh-keys",
      "my-plugin", "IMDS" }

(* Longer requests: the default one, a plain valid one, one that breaks two
   validation rules at once, one on which every resolution rule can act, and
   one with every epilogue plugin. *)
Scenarios ==
    { default,
      <<"static-volume-provisioner", "anaconda", "python">>,
      <<"imds", "time-sync", "ssm-agent">>,
      <<"time-sync", "eks-worker-node-ami-scratch", "eks-worker-node-ami-reuse">>,
      <<"cleanup-image-ssh-keys", "cleanup-image-aws-credentials",
        "cleanup-image-tmp-dir", "cleanup-image-packages", "post-init-script",
        "cluster-info", "ami-info">> }

(* Every request of at most MaxReq names, and the longer ones above. *)
Requests == UNION {[1..n -> ReqVocab] : n \in 0..MaxReq} \cup Scenarios

NoStr == "<unset>"
NoPlugin == [v |-> "<unset>", s |-> ""]
NoParse == [ok |-> FALSE, plugin |-> NoPlugin]
NoCompare ==
    [rank_a |-> <<0, 0>>, rank_b |-> <<0, 0>>, cmp_ab |-> "", cmp_ba |-> "", eq_ab |-> FALSE]
NoListing == [values |-> <<>>, all |-> <<>>]
NoResult == [tag |-> "", err |-> NoError, plugins |-> <<>>, contents |-> <<>>]
NoCwResult == [tag |-> "", kind |-> "", message |-> <<>>, retryable |-> FALSE]

Range(f) == {f[j] : j \in DOMAIN f}

CatIdle ==
    /\ cat_pc = "off"
    /\ str_in = NoStr
    /\ plugin_in = NoPlugin
    /\ parsed = NoParse
    /\ printed = NoStr
    /\ str_of = NoStr
    /\ reparsed = NoPlugin
    /\ compared = NoCompare
    /\ listed = NoListing

CreateIdle ==
    /\ arch_is_nvidia = FALSE
    /\ plugins_str = <<>>
    /\ require_static_ip_provisioner = FALSE
    /\ ssh_key_email = None
    /\ aws_secret_key_id = None
    /\ aws_secret_access_key = None
    /\ post_init_script = None
    /\ hash_coll = {}
    /\ pc = "off"
    /\ plugins_set = {}
    /\ plugins = <<>>
    /\ idx = 0
    /\ contents = <<>>
    /\ updated_bash_profile = FALSE
    /\ calls = <<>>
    /\ result = NoResult

CwIdle ==
    /\ cw_pc = "off"
    /\ cw_calls = 0
    /\ cw_op = [name |-> "", arg |-> ""]
    /\ cw_data = <<>>
    /\ cw_batch = 0
    /\ cw_requests = <<>>
    /\ cw_resp = [variant |-> "", detail |-> ""]
    /\ cw_groups = {}
    /\ cw_result = NoCwResult

(***************************************************************************)
(* SpecCatalog: the pure functions of the catalog applied to every string  *)
(* and every Plugin value of the input sets.                               *)
(***************************************************************************)
CatInit ==
    /\ cat_pc = "input"
    /\ str_in \in StrInputs
    /\ plugin_in \in PluginInputs
    /\ parsed = NoParse
    /\ printed = NoStr
    /\ str_of = NoStr
    /\ reparsed = NoPlugin
    /\ compared = NoCompare
    /\ listed = NoListing
    /\ CreateIdle
    /\ CwIdle

(* Plugin::from_str(str_in) *)
ParseInput ==
    /\ cat_pc = "input"
    /\ parsed' = from_str(str_in)
    /\ cat_pc' = "parsed"
    /\ UNCHANGED <<str_in, plugin_in, printed, str_of, reparsed, compared, listed>>
    /\ UNCHANGED <<createVars, cwVars>>

(* parsed.as_str() *)
PrintParsed ==
    /\ cat_pc = "parsed"
    /\ printed' = as_str(parsed.plugin)
    /\ cat_pc' = "printed"
    /\ UNCHANGED <<str_in, plugin_in, parsed, str_of, reparsed, compared, listed>>
    /\ UNCHANGED <<createVars, cwVars>>

(* plugin_in.as_str() *)
PrintPlugin ==
    /\ cat_pc = "printed"
    /\ str_of' = as_str(plugin_in)
    /\ cat_pc' = "str_of"
    /\ UNCHANGED <<str_in, plugin_in, parsed, printed, reparsed, compared, listed>>
    /\ UNCHANGED <<createVars, cwVars>>

(* Plugin::from(plugin_in.as_str()) *)
ReparsePrinted ==
    /\ cat_pc = "str_of"
    /\ reparsed' = from(str_of)
    /\ cat_pc' = "reparsed"
    /\ UNCHANGED <<str_in, plugin_in, parsed, printed, str_of, compared, listed>>
    /\ UNCHANGED <<createVars, cwVars>>

(* rank, cmp and == of plugin_in against the parsed value *)
Compare ==
    /\ cat_pc = "reparsed"
    /\ compared' = [rank_a |-> rank(plugin_in),
                    rank_b |-> rank(parsed.plugin),
                    cmp_ab |-> cmp(plugin_in, parsed.plugin),
                    cmp_ba |-> cmp(parsed.plugin, plugin_in),
                    eq_ab  |-> eq(plugin_in, parsed.plugin)]
    /\ cat_pc' = "compared"
    /\ UNCHANGED <<str_in, plugin_in, parsed, printed, str_of, reparsed, listed>>
    /\ UNCHANGED <<createVars, cwVars>>

(* Plugin::values() and Plugin::all() *)
Listing ==
    /\ cat_pc = "compared"
    /\ listed' = [values |-> values, all |-> all]
    /\ cat_pc' = "listed"
    /\ UNCHANGED <<str_in, plugin_in, parsed, printed, str_of, reparsed, compared>>
    /\ UNCHANGED <<createVars, cwVars>>

CatNext ==
    \/ ParseInput
    \/ PrintParsed
    \/ PrintPlugin
    \/ ReparsePrinted
    \/ Compare
    \/ Listing

SpecCatalog == CatInit /\ [][CatNext]_vars

(***************************************************************************)
(* Spec: one call of create.                                               *)
(***************************************************************************)
Init ==
    /\ CatIdle
    /\ CwIdle
    /\ plugins_str \in Requests
    /\ arch_is_nvidia \in BOOLEAN
    /\ require_static_ip_provisioner \in BOOLEAN
    \* the email is read only in the arm of ssh-key-with-email (line 884)
    /\ ssh_key_email \in IF "ssh-key-with-email" \in Range(plugins_str)
                          THEN Option({"dev@example.com"}) ELSE {None}
    /\ aws_secret_key_id \in Option({"AKIDEXAMPLE"})
    \* the access key is read only under a key id (line 1025)
    /\ aws_secret_access_key \in IF is_some(aws_secret_key_id)
                                  THEN Option({"secret"}) ELSE {None}
    /\ post_init_script \in Option({"echo post-init"})
    /\ hash_coll \in SUBSET TiePairs(plugins_str)
    /\ pc = "called"
    /\ plugins_set = {}
    /\ plugins = <<>>
    /\ idx = 0
    /\ contents = <<>>
    /\ updated_bash_profile = FALSE
    /\ calls = <<>>
    /\ result = NoResult

(* return Err(err): the locals are dropped, nothing but the error is returned. *)
ReturnErr(err, invoked) ==
    /\ pc' = "returned"
    /\ result' = [tag |-> "Err", err |-> err, plugins |-> <<>>, contents |-> <<>>]
    /\ calls' = calls \o invoked
    /\ plugins_set' = {}
    /\ plugins' = <<>>
    /\ idx' = 0
    /\ contents' = <<>>
    /\ updated_bash_profile' = FALSE

(* a panic: create returns nothing at all *)
Abort(invoked) ==
    /\ pc' = "panicked"
    /\ result' = [tag |-> "Panic", err |-> NoError, plugins |-> <<>>, contents |-> <<>>]
    /\ calls' = calls \o invoked
    /\ plugins_set' = {}
    /\ plugins' = <<>>
    /\ idx' = 0
    /\ contents' = <<>>
    /\ updated_bash_profile' = FALSE

(* lines 487-496 *)
ParseRequest ==
    /\ pc = "called"
    /\ plugins_set' = parse_all(hash_coll, plugins_str, {})
    /\ pc' = "parsed"
    /\ UNCHANGED <<plugins, idx, contents, updated_bash_profile, calls, result>>
    /\ UNCHANGED <<catVars, argVars, cwVars>>

(* lines 498-514 *)
Resolve ==
    /\ pc = "parsed"
    /\ plugins_set' = resolve(hash_coll, plugins_set,
                              require_static_ip_provisioner, arch_is_nvidia)
    /\ pc' = "resolved"
    /\ UNCHANGED <<plugins, idx, contents, updated_bash_profile, calls, result>>
    /\ UNCHANGED <<catVars, argVars, cwVars>>

(* lines 516-638 *)
Validate ==
    /\ pc = "resolved"
    /\ LET e == validate(hash_coll, plugins_set, arch_is_nvidia)
       IN  IF e = NoError
           THEN /\ pc' = "validated"
                /\ UNCHANGED <<plugins_set, plugins, idx, contents,
                               updated_bash_profile, calls, result>>
           ELSE ReturnErr(e, <<>>)
    /\ UNCHANGED <<catVars, argVars, cwVars>>

(* lines 640-654 *)
Prepare ==
    /\ pc = "validated"
    /\ plugins_set' = post_init_rule(hash_coll, plugins_set, post_init_script)
    /\ plugins' \in sorted_orders(plugins_set')
    /\ pc' = "prepared"
    /\ UNCHANGED <<idx, contents, updated_bash_profile, calls, result>>
    /\ UNCHANGED <<catVars, argVars, cwVars>>

(* lines 659-660: scripts::start opens the script *)
Start ==
    /\ pc = "prepared"
    /\ \E ok \in BOOLEAN :
          IF ok
          THEN /\ contents' = <<Generated("start", <<>>)>>
               /\ calls' = calls \o <<[gen |-> "start", args |-> <<>>]>>
               /\ updated_bash_profile' = FALSE
               /\ idx' = 1
               /\ pc' = "main"
               /\ UNCHANGED <<plugins_set, plugins, result>>
          ELSE ReturnErr(Error("Generator", "start"),
                         <<[gen |-> "start", args |-> <<>>]>>)
    /\ UNCHANGED <<catVars, argVars, cwVars>>

(* The main loop never recording that it has updated the bash profile. *)
MainStep_flag_not_set ==
    /\ pc = "main"
    /\ idx <= Len(plugins)
    /\ \E items \in {ArmItems(hash_coll, plugins_set, plugins[idx], ssh_key_email,
                              updated_bash_profile)} :
       \E f \in FailChoices(items) :
       \E out \in {Run(items, f)} :
             IF out.status = "ok"
             THEN /\ contents' = contents \o out.pieces
                  /\ calls' = calls \o out.calls
                  /\ idx' = idx + 1
                  /\ UNCHANGED <<pc, plugins_set, plugins, result,
                                 updated_bash_profile>>
             ELSE ReturnErr(out.err, out.calls)
    /\ UNCHANGED <<catVars, argVars, cwVars>>

(* lines 661-1005: one iteration of the main loop *)
MainStep ==
    /\ pc = "main"
    /\ idx <= Len(plugins)
    /\ \E items \in {ArmItems(hash_coll, plugins_set, plugins[idx], ssh_key_email,
                              updated_bash_profile)} :
       \E f \in FailChoices(items) :
       \E out \in {Run(items, f)} :
             IF out.status = "ok"
             THEN /\ contents' = contents \o out.pieces
                  /\ calls' = calls \o out.calls
                  /\ updated_bash_profile' =
                        (updated_bash_profile \/ plugins[idx] \in BashProfileTriggers)
                  /\ idx' = idx + 1
                  /\ UNCHANGED <<pc, plugins_set, plugins, result>>
             ELSE ReturnErr(out.err, out.calls)
    /\ UNCHANGED <<catVars, argVars, cwVars>>

(* lines 1007-1090: the epilogue and the return *)
Epilogue ==
    /\ pc = "main"
    /\ idx > Len(plugins)
    /\ \E items \in {EpilogueItems(hash_coll, plugins_set, updated_bash_profile,
                                   aws_secret_key_id, aws_secret_access_key,
                                   post_init_script)} :
       \E f \in FailChoices(items) :
       \E out \in {Run(items, f)} :
             IF out.status = "ok"
             THEN /\ pc' = "returned"
                  /\ result' = [tag |-> "Ok", err |-> NoError, plugins |-> plugins,
                                contents |-> contents \o out.pieces]
                  /\ calls' = calls \o out.calls
                  /\ contents' = contents \o out.pieces
                  /\ UNCHANGED <<plugins_set, plugins, idx, updated_bash_profile>>
             ELSE IF out.status = "panic" THEN Abort(out.calls)
             ELSE ReturnErr(out.err, out.calls)
    /\ UNCHANGED <<catVars, argVars, cwVars>>

Next ==
    \/ ParseRequest
    \/ Resolve
    \/ Validate
    \/ Prepare
    \/ Start
    \/ MainStep
    \/ Epilogue

Spec == Init /\ [][Next]_vars

(***************************************************************************)
(* src/aws/rust/src/cloudwatch/mod.rs: the CloudWatch manager.             *)
(***************************************************************************)
(* line 21 *)
BATCH_SIZE == 950

(* The SdkError values a send() can return, by variant; a DispatchFailure
   carries what e.is_timeout() / e.is_io() say, a ServiceError the
   exception of the service. *)
SdkError(variant, detail) == [variant |-> variant, detail |-> detail]

(* The errors of operation op: those of the transport, and the exceptions
   of the service for that operation. *)
SdkErrors(op) ==
    { SdkError("ConstructionFailure", ""), SdkError("TimeoutError", ""),
      SdkError("ResponseError", "") }
    \cup { SdkError("DispatchFailure", d) : d \in {"timeout", "io", "other"} }
    \cup { SdkError("ServiceError", x) :
              x \in CASE op = "put_metric_data" -> {"InternalServiceFault"}
                     [] op = "create_log_group" ->
                           {"ResourceAlreadyExistsException", "LimitExceededException"}
                     [] op = "delete_log_group" ->
                           {"ResourceNotFoundException", "OperationAbortedException"} }

SendOk == [variant |-> "Ok", detail |-> ""]

(* lines 199-205 *)
is_err_retryable_put_metrics_data(e) ==
    IF e.variant \in {"TimeoutError", "ResponseError"} THEN TRUE
    ELSE IF e.variant = "DispatchFailure" THEN e.detail \in {"timeout", "io"}
    ELSE FALSE

(* lines 208-214 *)
is_err_retryable_create_log_group(e) ==
    IF e.variant \in {"TimeoutError", "ResponseError"} THEN TRUE
    ELSE IF e.variant = "DispatchFailure" THEN e.detail \in {"timeout", "io"}
    ELSE FALSE

(* is_err_already_exists_create_log_group taking the exception of
   delete_log_group (a copied arm). *)
is_err_already_exists_copied(e) ==
    IF e.variant = "ServiceError"
    THEN e.detail = "ResourceNotFoundException"
    ELSE FALSE

(* lines 217-224 *)
is_err_already_exists_create_log_group(e) ==
    IF e.variant = "ServiceError"
    THEN e.detail = "ResourceAlreadyExistsException"
    ELSE FALSE

(* lines 227-234 *)
is_err_does_not_exist_delete_log_group(e) ==
    IF e.variant = "ServiceError"
    THEN e.detail = "ResourceNotFoundException"
    ELSE FALSE

(* Error::API { message: format!("failed <op> {:?}", e), retryable } *)
API(op, e, retryable) ==
    [tag |-> "Err", kind |-> "API", message |-> <<"failed " \o op, e>>,
     retryable |-> retryable]

CwOk == [tag |-> "Ok", kind |-> "", message |-> <<>>, retryable |-> FALSE]

(* slice::chunks leaving out the last, shorter chunk (chunks_exact). *)
chunks_exact(data, size) ==
    [j \in 1..(Len(data) \div size) |-> SubSeq(data, (j - 1) * size + 1, j * size)]

(* data.chunks(size), line 95: consecutive slices of size elements, the last
   one shorter when size does not divide the length. *)
chunks(data, size) ==
    [j \in 1..((Len(data) + size - 1) \div size) |->
        SubSeq(data, (j - 1) * size + 1, Min({j * size, Len(data)}))]

(* Inputs: metric data of a length around each multiple of BATCH_SIZE, the
   datum at position j being j; log group names. *)
DataLens ==
    {n \in {k * BATCH_SIZE + d : k \in 0..MaxBatches, d \in {-1, 0, 1, 2}} : n >= 0}

LogGroupNames == {"lg-a", "lg-b"}

(***************************************************************************)
(* SpecCloudwatch: a caller making up to MaxCalls calls of the manager,    *)
(* one at a time, against a service that answers each request with Ok or   *)
(* with one of the errors of the operation.                                *)
(***************************************************************************)
CwInit ==
    /\ CatIdle
    /\ CreateIdle
    /\ cw_pc = "idle"
    /\ cw_calls = 0
    /\ cw_op = [name |-> "", arg |-> ""]
    /\ cw_data = <<>>
    /\ cw_batch = 0
    /\ cw_requests = <<>>
    /\ cw_resp = [variant |-> "", detail |-> ""]
    /\ cw_groups \in SUBSET LogGroupNames
    /\ cw_result = NoCwResult

(* lines 61-67: put_metric_data is called *)
PutMetricData ==
    /\ cw_pc = "idle"
    /\ cw_calls < MaxCalls
    /\ \E n \in DataLens :
          /\ cw_data' = [j \in 1..n |-> j]
          /\ cw_pc' = IF n <= BATCH_SIZE THEN "put_all" ELSE "put_chunks"
    /\ cw_calls' = cw_calls + 1
    /\ cw_op' = [name |-> "put_metric_data", arg |-> "ns"]
    /\ cw_batch' = 1
    /\ cw_requests' = <<>>
    /\ cw_resp' = [variant |-> "", detail |-> ""]
    /\ cw_result' = NoCwResult
    /\ UNCHANGED cw_groups
    /\ UNCHANGED <<catVars, createVars>>

(* lines 68-87: all the data in one request *)
PutAll ==
    /\ cw_pc = "put_all"
    /\ cw_requests' = Append(cw_requests, cw_data)
    /\ \E resp \in {SendOk} \cup SdkErrors("put_metric_data") : \E sdk_retryable \in BOOLEAN :
          /\ cw_resp' = resp
          /\ cw_result' =
                IF resp = SendOk THEN CwOk
                ELSE API("put_metric_data", resp,
                         sdk_retryable \/ is_err_retryable_put_metrics_data(resp))
    /\ cw_pc' = "idle"
    /\ UNCHANGED <<cw_calls, cw_op, cw_data, cw_batch, cw_groups>>
    /\ UNCHANGED <<catVars, createVars>>

(* lines 95-115: one chunk in one request *)
PutChunk ==
    /\ cw_pc = "put_chunks"
    /\ cw_batch <= Len(chunks(cw_data, BATCH_SIZE))
    /\ cw_requests' = Append(cw_requests, chunks(cw_data, BATCH_SIZE)[cw_batch])
    /\ \E resp \in {SendOk} \cup SdkErrors("put_metric_data") : \E sdk_retryable \in BOOLEAN :
          /\ cw_resp' = resp
          /\ IF resp = SendOk
             THEN /\ cw_pc' = "put_sleep"
                  /\ UNCHANGED cw_result
             ELSE /\ cw_pc' = "idle"
                  /\ cw_result' =
                        API("put_metric_data", resp,
                            sdk_retryable \/ is_err_retryable_put_metrics_data(resp))
    /\ UNCHANGED <<cw_calls, cw_op, cw_data, cw_batch, cw_groups>>
    /\ UNCHANGED <<catVars, createVars>>

(* line 116: sleep(1s), then the next chunk *)
PutSleep ==
    /\ cw_pc = "put_sleep"
    /\ cw_batch' = cw_batch + 1
    /\ cw_pc' = "put_chunks"
    /\ UNCHANGED <<cw_calls, cw_op, cw_data, cw_requests, cw_resp, cw_groups, cw_result>>
    /\ UNCHANGED <<catVars, createVars>>

(* line 120: Ok(()) after the last chunk *)
PutReturn ==
    /\ cw_pc = "put_chunks"
    /\ cw_batch > Len(chunks(cw_data, BATCH_SIZE))
    /\ cw_result' = CwOk
    /\ cw_pc' = "idle"
    /\ UNCHANGED <<cw_calls, cw_op, cw_data, cw_batch, cw_requests, cw_resp, cw_groups>>
    /\ UNCHANGED <<catVars, createVars>>

(* What the service can answer to a log group request: to CreateLogGroup Ok
   for a new group and the already-exists exception for an existing one, to
   DeleteLogGroup Ok for an existing group and the not-found exception
   otherwise, and to both any other error. *)
Answers(op, groups, name) ==
    LET exists == SdkError("ServiceError", "ResourceAlreadyExistsException")
        missing == SdkError("ServiceError", "ResourceNotFoundException")
    IN  ( IF op = "create_log_group"
          THEN (IF name \in groups THEN {exists} ELSE {SendOk})
          ELSE (IF name \in groups THEN {SendOk} ELSE {missing}) )
        \cup (SdkErrors(op) \ {exists, missing})

(* lines 125-154 *)
create_log_group ==
    /\ cw_pc = "idle"
    /\ cw_calls < MaxCalls
    /\ \E name \in LogGroupNames :
       \E resp \in Answers("create_log_group", cw_groups, name) :
       \E sdk_retryable \in BOOLEAN :
          /\ cw_op' = [name |-> "create_log_group", arg |-> name]
          /\ cw_resp' = resp
          /\ cw_groups' \in
                IF resp = SendOk THEN {cw_groups \cup {name}}
                \* a request that timed out or whose response was lost may
                \* have been carried out all the same
                ELSE IF resp.variant \in {"TimeoutError", "ResponseError"}
                THEN {cw_groups, cw_groups \cup {name}}
                ELSE {cw_groups}
          /\ cw_result' =
                IF resp = SendOk THEN CwOk
                ELSE IF ~is_err_already_exists_create_log_group(resp)
                THEN API("create_log_group", resp,
                         sdk_retryable \/ is_err_retryable_create_log_group(resp))
                ELSE CwOk
    /\ cw_calls' = cw_calls + 1
    /\ UNCHANGED <<cw_pc, cw_data, cw_batch, cw_requests>>
    /\ UNCHANGED <<catVars, createVars>>

(* lines 158-195 *)
delete_log_group ==
    /\ cw_pc = "idle"
    /\ cw_calls < MaxCalls
    /\ \E name \in LogGroupNames :
       \E resp \in Answers("delete_log_group", cw_groups, name) :
       \E sdk_retryable \in BOOLEAN :
          /\ cw_op' = [name |-> "delete_log_group", arg |-> name]
          /\ cw_resp' = resp
          /\ cw_groups' \in
                IF resp = SendOk THEN {cw_groups \ {name}}
                ELSE IF resp.variant \in {"TimeoutError", "ResponseError"}
                THEN {cw_groups, cw_groups \ {name}}
                ELSE {cw_groups}
          /\ cw_result' =
                IF resp = SendOk THEN CwOk
                ELSE IF ~is_err_does_not_exist_delete_log_group(resp)
                THEN API("delete_log_group", resp,
                         sdk_retryable \/ is_err_retryable_create_log_group(resp))
                ELSE CwOk
    /\ cw_calls' = cw_calls + 1
    /\ UNCHANGED <<cw_pc, cw_data, cw_batch, cw_requests>>
    /\ UNCHANGED <<catVars, createVars>>

CwNext ==
    \/ PutMetricData
    \/ PutAll
    \/ PutChunk
    \/ PutSleep
    \/ PutReturn
    \/ create_log_group
    \/ delete_log_group

SpecCloudwatch == CwInit /\ [][CwNext]_vars

(***************************************************************************)
(* Properties of the catalog (checked under SpecCatalog).                  *)
(***************************************************************************)
CatAt(stages) == cat_pc \in stages

(* C1: for every known Plugin variant c, parsing its string form gives c
   back: Plugin::from(c.as_str()) = c. *)
C1_ParseOfAsStr ==
    (CatAt({"reparsed", "compared", "listed"}) /\ plugin_in \in Known)
        => reparsed = plugin_in

C1_Witness ==
    /\ cat_pc = "reparsed"
    /\ plugin_in = CleanupImageTmpDir
    /\ str_of = "cleanup-image-tmp-dir"
    /\ reparsed = CleanupImageTmpDir

(* C2: parsing never fails, and a string that is no known name parses to
   Unknown wrapping that string, which as_str returns unchanged. *)
C2_UnknownPassThrough ==
    /\ CatAt({"parsed", "printed", "str_of", "reparsed", "compared", "listed"})
          => /\ parsed.ok
             /\ str_in \notin SerdeNames =>
                   (parsed.plugin.v = "Unknown" /\ parsed.plugin.s = str_in)
    /\ (CatAt({"printed", "str_of", "reparsed", "compared", "listed"})
          /\ str_in \notin SerdeNames)
          => printed = str_in

C2_Witness ==
    /\ cat_pc = "printed"
    /\ str_in = "imds "
    /\ parsed.plugin.v = "Unknown"
    /\ printed = "imds "

(* C4: any two different known Plugin variants have different ranks. *)
C4_DistinctRanks ==
    (CatAt({"compared", "listed"})
        /\ plugin_in \in Known /\ parsed.plugin \in Known
        /\ plugin_in # parsed.plugin)
        => compared.rank_a # compared.rank_b

(* C5: Unknown has rank u32::MAX, every known variant a strictly smaller
   rank, so an Unknown never compares below a known variant. *)
C5_UnknownRanksLast ==
    CatAt({"compared", "listed"}) =>
        /\ plugin_in.v = "Unknown" => compared.rank_a = <<65535, 65535>>
        /\ plugin_in \in Known => U32Less(compared.rank_a, <<65535, 65535>>)
        /\ (plugin_in.v = "Unknown" /\ parsed.plugin \in Known)
              => (compared.cmp_ab = "Greater" /\ compared.cmp_ba = "Less")

C5_Witness ==
    /\ cat_pc = "compared"
    /\ plugin_in = Unknown("my-plugin")
    /\ parsed.plugin = CleanupImageSshKeys
    /\ compared.rank_a = <<65535, 65535>>
    /\ compared.rank_b = <<65535, 65530>>
    /\ compared.cmp_ab = "Greater"

(* C6: two Plugin values are == exactly when they are the same variant with
   the same payload; anaconda and python are not ==. *)
C6_EqIsIdentity ==
    CatAt({"compared", "listed"}) =>
        (compared.eq_ab <=> plugin_in = parsed.plugin)

(* C7: Plugin::values() holds the string form of every known variant and is
   the same set of strings as Plugin::all(). *)
C7_ValuesComplete ==
    cat_pc = "listed" =>
        /\ plugin_in \in Known => str_of \in Range(listed.values)
        /\ Range(listed.values) = Range(listed.all)

(***************************************************************************)
(* Properties of create (checked under Spec).                              *)
(***************************************************************************)
Requested(name) == name \in Range(plugins_str)
UnknownRequested == {s \in Range(plugins_str) : s \notin SerdeNames}
EmailMissing == Requested("ssh-key-with-email") /\ is_none(ssh_key_email)
GensInvoked == {calls[j].gen : j \in DOMAIN calls}

(* The names whose plugin, once requested, stays in the set and has an arm
   in the main pass. *)
MainPassNames ==
    {s \in SerdeNames : from(s) \in DOMAIN MainArms} \ {"anaconda", "python"}

(* C3 as claimed: with an unknown name in a request that passes validation
   and whose generators all succeed, create succeeds and returns the
   Unknown plugin last of the main pass. *)
C3_UnknownAccepted ==
    (pc = "returned" /\ UnknownRequested # {} /\ ~EmailMissing
        /\ result.err.kind \notin {"InvalidInput", "Generator"})
        => /\ result.tag = "Ok"
           /\ \E j \in DOMAIN result.plugins : result.plugins[j].v = "Unknown"

(* C3: a request with an unknown name parses, but create never succeeds on
   it and never panics; when validation passes and no generator fails, the
   Unknown plugin is reached last in the main pass, after the generator of
   every requested main-pass plugin has run, and create returns the error
   "unknown plugin <name>" with no list and no text. *)
C3_UnknownRejected ==
    UnknownRequested # {} =>
        /\ pc # "panicked"
        /\ pc = "returned" =>
              /\ result.tag = "Err"
              /\ result.plugins = <<>>
              /\ result.contents = <<>>
              /\ (~EmailMissing /\ result.err.kind \notin {"InvalidInput", "Generator"})
                    => /\ result.err.kind = "Other"
                       /\ \E s \in UnknownRequested :
                             result.err.msg = "unknown plugin " \o s
                       /\ \A s \in Range(plugins_str) \cap MainPassNames :
                             MainArms[from(s)] \in GensInvoked

C3_Witness ==
    /\ pc = "returned"
    /\ plugins_str = <<"my-plugin", "ssm-agent">>
    /\ result.tag = "Err"
    /\ result.err.msg = "unknown plugin my-plugin"
    /\ "ssm_agent" \in GensInvoked

(* The set create holds after lines 487-514 and after lines 487-648, as a
   function of its arguments. *)
ResolvedOf(strs) ==
    resolve(hash_coll, parse_all(hash_coll, strs, {}),
            require_static_ip_provisioner, arch_is_nvidia)
FullyResolvedOf(strs) ==
    post_init_rule(hash_coll, ResolvedOf(strs), post_init_script)

(* C8: resolution is idempotent: with the switches fixed, the rules of
   lines 498-514 leave the resolved set as it is, and the names of the
   final list, requested again, resolve to the same set. *)
C8_ResolveIdempotent ==
    /\ pc \in {"resolved", "validated"} =>
          resolve(hash_coll, plugins_set,
                  require_static_ip_provisioner, arch_is_nvidia) = plugins_set
    /\ pc \in {"prepared", "main"} =>
          FullyResolvedOf(to_strings(plugins)) = plugins_set

C8_Witness ==
    /\ pc = "prepared"
    /\ plugins_str = <<"static-volume-provisioner", "python">>
    /\ require_static_ip_provisioner
    /\ arch_is_nvidia
    /\ is_some(post_init_script)
    /\ plugins_set = {StaticVolumeProvisioner, StaticIpProvisioner, Python,
                      NvidiaDriver, PostInitScript}

BothAmisRequested ==
    Requested("eks-worker-node-ami-scratch") /\ Requested("eks-worker-node-ami-reuse")

ConflictMsg == "'eks-worker-node-ami-scratch' conflicts with 'eks-worker-node-ami-reuse'"

(* C9 as claimed: a request with both eks-worker-node-ami-scratch and
   eks-worker-node-ami-reuse fails with the conflict error. *)
C9_ConflictErrorAlways ==
    (BothAmisRequested /\ pc = "returned")
        => (result.tag = "Err" /\ result.err.msg = ConflictMsg)

(* C9: a request with both eks-worker-node-ami-scratch and
   eks-worker-node-ami-reuse never gets past validation: create returns an
   InvalidInput error, no list and no text, before any generator runs; the
   error is the conflict error unless an earlier rule is violated. *)
C9_ConflictFails ==
    BothAmisRequested =>
        /\ pc \in {"called", "parsed", "resolved", "returned"}
        /\ pc = "returned" =>
              /\ result.tag = "Err"
              /\ result.err.kind = "InvalidInput"
              /\ result.plugins = <<>>
              /\ result.contents = <<>>
              /\ calls = <<>>
              /\ (\A j \in 1..8 :
                     validation_rules(hash_coll, ResolvedOf(plugins_str),
                                      arch_is_nvidia)[j] = NoError)
                    => result.err.msg = ConflictMsg

C9_Witness ==
    /\ pc = "returned"
    /\ plugins_str = <<"eks-worker-node-ami-reuse", "eks-worker-node-ami-scratch">>
    /\ result.tag = "Err"
    /\ result.err.msg = ConflictMsg

(* C10: for each required pair (time-sync needs imds, ena needs imds,
   ecr-credential-provider needs go), a request with the first and without
   the second fails validation, and with the second added it does not fail
   on that rule. *)
RequiredPairs ==
    { <<"time-sync", "imds", "'time-sync' requires 'imds' plugin">>,
      <<"ena", "imds", "'ena' requires 'imds' plugin">>,
      <<"ecr-credential-provider", "go",
        "'ecr-credential-provider' requires 'go' plugin">> }

C10_RequiredPairs ==
    \A pr \in RequiredPairs :
        /\ (Requested(pr[1]) /\ ~Requested(pr[2])) =>
              /\ pc \in {"called", "parsed", "resolved", "returned"}
              /\ pc = "returned" =>
                    /\ result.tag = "Err"
                    /\ result.err.kind = "InvalidInput"
                    /\ calls = <<>>
        /\ (Requested(pr[1]) /\ Requested(pr[2]) /\ pc = "returned")
              => result.err.msg # pr[3]

C10_Witness ==
    /\ pc = "returned"
    /\ plugins_str = <<"ena", "go">>
    /\ result.tag = "Err"
    /\ result.err.msg = "'ena' requires 'imds' plugin"
    /\ calls = <<>>

(***************************************************************************)
(* Reading the text create returns: the pieces of a successful result.     *)
(***************************************************************************)
Succeeded == pc = "returned" /\ result.tag = "Ok"
Out == result.contents
IsFragment(piece) == piece.k \in {"generated", "literal"}
PosOf(gen) == {j \in DOMAIN Out : Out[j].k = "generated" /\ Out[j].v = gen}
MarkerPos == {j \in DOMAIN Out : Out[j] = CompleteEcho}
InList(p) == \E j \in DOMAIN result.plugins : result.plugins[j] = p
EmailMsg == "plugin ssh-key-with-email specified but empty email"

(* C11: every validation error, the missing contact email included, is
   returned before the preamble generator or any plugin generator has been
   called, and with no text. *)
C11_ValidationBeforeAssembly ==
    (pc = "returned" /\ result.tag = "Err"
        /\ (result.err.kind = "InvalidInput" \/ result.err.msg = EmailMsg))
        => (calls = <<>> /\ result.contents = <<>>)

(* C12: every text create returns holds the update_bash_profile fragment
   exactly once, whichever of system-limit-bump and
   static-volume-provisioner were requested. *)
C12_BashProfileOnce ==
    Succeeded => Cardinality(PosOf("update_bash_profile")) = 1

C12_Witness ==
    /\ Succeeded
    /\ plugins_str = <<"static-volume-provisioner", "system-limit-bump">>
    /\ Cardinality(PosOf("update_bash_profile")) = 1

(* C13: with system-limit-bump and static-volume-provisioner both
   requested, the update_bash_profile fragment is the fragment right after
   the system_limit_bump fragment (one banner between them); none follows
   the static_volume_provisioner fragment and none is in the epilogue. *)
C13_BashProfileAfterFirstTrigger ==
    (Succeeded /\ Requested("system-limit-bump")
        /\ Requested("static-volume-provisioner"))
        => \E j \in PosOf("system_limit_bump") :
              /\ PosOf("system_limit_bump") = {j}
              /\ Out[j + 1] = Banner
              /\ PosOf("update_bash_profile") = {j + 2}
              /\ \A k \in PosOf("static_volume_provisioner") : k > j + 2

C13_Witness ==
    /\ Succeeded
    /\ plugins_str = <<"static-volume-provisioner", "system-limit-bump">>
    /\ ~require_static_ip_provisioner
    /\ ~arch_is_nvidia
    /\ Out[3].v = "system_limit_bump"
    /\ Out[5].v = "update_bash_profile"
    /\ Out[7].v = "static_volume_provisioner"

(* The generators whose text is in the returned script, in order, and the
   plugins of the returned list that have an arm in the main pass. *)
IsGenerated(piece) == piece.k = "generated"
IsMainArm(p) == p \in DOMAIN MainArms
GenSeq == [j \in DOMAIN SelectSeq(Out, IsGenerated) |-> SelectSeq(Out, IsGenerated)[j].v]
MainPlugins == SelectSeq(result.plugins, IsMainArm)
TriggerInList == InList(SystemLimitBump) \/ InList(StaticVolumeProvisioner)

(* The text that shows an epilogue plugin in the script. *)
EpiloguePiece ==
    (AmiInfo :> "ami_info")
    @@ (ClusterInfo :> "cluster_info")
    @@ (PostInitScript :> PostInitHeader.v)
    @@ (CleanupImagePackages :> "cleanup_image_packages")
    @@ (CleanupImageTmpDir :> "cleanup_image_tmp_dir")
    @@ (CleanupImageAwsCredentials :> "cleanup_image_aws_credentials")
    @@ (CleanupImageSshKeys :> "cleanup_image_ssh_keys")
EpiloguePos(e) == {j \in DOMAIN Out : IsFragment(Out[j]) /\ Out[j].v = EpiloguePiece[e]}

(* C14: a valid request with neither trigger, such as imds, time-sync,
   ssm-agent, succeeds unless a generator fails; the main-pass fragments
   come in ascending rank, the update_bash_profile fragment comes once and
   after all of them, and no epilogue plugin outside the set has a
   fragment. *)
C14_NoTriggerAssembly ==
    /\ (pc = "returned" /\ plugins_str = <<"imds", "time-sync", "ssm-agent">>
           /\ result.err.kind # "Generator")
          => result.tag = "Ok"
    /\ (Succeeded /\ ~TriggerInList) =>
          /\ \A i \in DOMAIN MainPlugins : \A j \in DOMAIN MainPlugins :
                i < j => U32Less(rank(MainPlugins[i]), rank(MainPlugins[j]))
          /\ \A i \in DOMAIN MainPlugins :
                GenSeq[i + 1] = MainArms[MainPlugins[i]]
          /\ GenSeq[Len(MainPlugins) + 2] = "update_bash_profile"
          /\ Cardinality(PosOf("update_bash_profile")) = 1
          /\ \A e \in EpilogueArms : ~InList(e) => EpiloguePos(e) = {}

C14_Witness ==
    /\ Succeeded
    /\ plugins_str = <<"imds", "time-sync", "ssm-agent">>
    /\ GenSeq = <<"start", "imds", "time_sync", "ssm_agent", "update_bash_profile">>

(* C15: with cleanup-image-packages and cleanup-image-ssh-keys both in the
   set, the cleanup_image_packages fragment is before the completion marker
   and the cleanup_image_ssh_keys fragment after it; no fragment other than
   cleanup_image_ssh_keys ever comes after the marker. *)
C15_PackagesBeforeSshKeysAfter ==
    Succeeded =>
        \A m \in MarkerPos :
            /\ \A j \in DOMAIN Out :
                  (j > m /\ IsFragment(Out[j]))
                      => Out[j] = Generated("cleanup_image_ssh_keys", <<>>)
            /\ (InList(CleanupImagePackages) /\ InList(CleanupImageSshKeys)) =>
                  /\ PosOf("cleanup_image_packages") # {}
                  /\ PosOf("cleanup_image_ssh_keys") # {}
                  /\ \A a \in PosOf("cleanup_image_packages") : a < m
                  /\ \A b \in PosOf("cleanup_image_ssh_keys") : m < b

C15_Witness ==
    /\ Succeeded
    /\ plugins_str = <<"cleanup-image-ssh-keys", "cleanup-image-packages">>
    /\ \E a \in PosOf("cleanup_image_packages") : \E m \in MarkerPos :
          \E b \in PosOf("cleanup_image_ssh_keys") : a < m /\ m < b

(* C16: every text create returns holds the completion marker (the echo of
   INIT SCRIPT COMPLETE) exactly once, with or without epilogue plugins; a
   failed create returns no text, so no marker. *)
C16_MarkerOnce ==
    /\ Succeeded =>
          /\ Cardinality(MarkerPos) = 1
          /\ Cardinality({j \in DOMAIN Out : Out[j] = CompleteComment}) = 1
    /\ (pc = "returned" /\ result.tag = "Err") => result.contents = <<>>
    /\ pc = "panicked" => result.contents = <<>>

C16_Witness ==
    /\ Succeeded
    /\ plugins_str = <<>>
    /\ is_none(aws_secret_key_id)
    /\ is_none(post_init_script)
    /\ Out = << Generated("start", <<>>),
                Banner, Generated("update_bash_profile",
                                  <<"false", "false", "false", "false",
                                    "false", "false", "false", "false">>),
                Banner, CompleteComment, CompleteEcho, Banner >>

CleanupGens ==
    { "cleanup_image_packages", "cleanup_image_tmp_dir",
      "cleanup_image_aws_credentials", "cleanup_image_ssh_keys" }

(* C17 as claimed: in a returned text no cleanup fragment (packages, tmp
   dir, aws credentials, ssh keys) comes before the completion marker. *)
C17_CleanupAfterMarker ==
    Succeeded =>
        \A m \in MarkerPos : \A g \in CleanupGens : \A j \in PosOf(g) : j > m

(* C17: of the cleanup fragments only cleanup_image_ssh_keys comes after
   the completion marker; cleanup_image_packages, cleanup_image_tmp_dir and
   cleanup_image_aws_credentials, when their plugin is in the set, come
   before it. *)
C17_OnlySshKeysAfterMarker ==
    Succeeded =>
        \A m \in MarkerPos :
            /\ \A j \in PosOf("cleanup_image_ssh_keys") : j > m
            /\ \A g \in CleanupGens \ {"cleanup_image_ssh_keys"} :
                  \A j \in PosOf(g) : j < m
            /\ InList(CleanupImagePackages) => PosOf("cleanup_image_packages") # {}
            /\ InList(CleanupImageTmpDir) => PosOf("cleanup_image_tmp_dir") # {}
            /\ InList(CleanupImageAwsCredentials)
                  => PosOf("cleanup_image_aws_credentials") # {}

C17_Witness ==
    /\ Succeeded
    /\ plugins_str = <<"cleanup-image-aws-credentials", "cleanup-image-tmp-dir">>
    /\ \E m \in MarkerPos :
          /\ \E j \in PosOf("cleanup_image_tmp_dir") : j < m
          /\ \E j \in PosOf("cleanup_image_aws_credentials") : j < m

(* The fragments of the epilogue after update_bash_profile, by the text
   that shows them, in the order create pushes them. *)
EpilogueOrder ==
    << "aws_key", "ami_info", "cluster_info", PostInitHeader.v,
       "cleanup_image_packages", "cleanup_image_tmp_dir",
       "cleanup_image_aws_credentials", CompleteEcho.v,
       "cleanup_image_ssh_keys" >>
FragPos(v) == {j \in DOMAIN Out : IsFragment(Out[j]) /\ Out[j].v = v}

(* C18: the epilogue comes in one order whatever the ranks and the order of
   the request: update_bash_profile if the main pass did not push it,
   aws_key if a key id was given, ami_info, cluster_info, the post-init
   script, cleanup_image_packages, cleanup_image_tmp_dir,
   cleanup_image_aws_credentials, the completion marker,
   cleanup_image_ssh_keys; a plugin's fragment is there exactly when the
   plugin is in the set. *)
C18_EpilogueOrder ==
    Succeeded =>
        /\ \A a \in DOMAIN EpilogueOrder : \A b \in DOMAIN EpilogueOrder :
              a < b => \A x \in FragPos(EpilogueOrder[a]) :
                           \A y \in FragPos(EpilogueOrder[b]) : x < y
        /\ ~TriggerInList =>
              \A x \in PosOf("update_bash_profile") :
                  \A b \in DOMAIN EpilogueOrder :
                      \A y \in FragPos(EpilogueOrder[b]) : x < y
        /\ \A e \in EpilogueArms :
              Cardinality(EpiloguePos(e)) = IF InList(e) THEN 1 ELSE 0
        /\ Cardinality(PosOf("aws_key")) = IF is_some(aws_secret_key_id) THEN 1 ELSE 0

C18_Witness ==
    /\ Succeeded
    /\ plugins_str = <<"cleanup-image-ssh-keys", "cleanup-image-aws-credentials",
                       "cleanup-image-tmp-dir", "cleanup-image-packages",
                       "post-init-script", "cluster-info", "ami-info">>
    /\ is_some(aws_secret_key_id)
    /\ GenSeq = << "start", "update_bash_profile", "aws_key", "ami_info",
                   "cluster_info", "cleanup_image_packages",
                   "cleanup_image_tmp_dir", "cleanup_image_aws_credentials",
                   "cleanup_image_ssh_keys" >>

(* C19: the seven epilogue plugins push nothing during the main pass, and
   in a returned text every fragment of a main-pass plugin comes before
   every fragment of an epilogue plugin. *)
C19_EpilogueSkippedInMainPass ==
    /\ pc = "main" =>
          \A j \in DOMAIN contents : \A e \in EpilogueArms :
              IsFragment(contents[j]) => contents[j].v # EpiloguePiece[e]
    /\ Succeeded =>
          \A i \in DOMAIN MainPlugins : \A e \in EpilogueArms :
              \A x \in PosOf(MainArms[MainPlugins[i]]) :
                  \A y \in EpiloguePos(e) : x < y

C19_Witness ==
    /\ Succeeded
    /\ plugins_str = <<"ami-info", "ssm-agent">>
    /\ is_none(aws_secret_key_id)
    /\ is_none(post_init_script)
    /\ GenSeq = <<"start", "ssm_agent", "update_bash_profile", "ami_info">>

DistinctRanks(S) == \A a \in S : \A b \in S : a # b => rank(a) # rank(b)
Ascending(v) ==
    \A i \in DOMAIN v : \A j \in DOMAIN v :
        i < j => U32Less(rank(v[i]), rank(v[j]))
IsPluginCall(c) == c.gen \notin {"start", "update_bash_profile"}
MainCalls == SelectSeq(calls, IsPluginCall)
MainDone == SelectSeq(SubSeq(plugins, 1, idx - 1), IsMainArm)

(* C20: sorting plugins of pairwise different ranks gives them in ascending
   rank whatever arrangement they start in, and the main pass calls the
   generators in that order, imds first when it is there. *)
C20_SortAscending ==
    /\ (pc = "prepared" /\ DistinctRanks(plugins_set)) =>
          /\ Ascending(plugins)
          /\ Cardinality(plugins_set) <= MaxSort =>
                \A a \in arrangements(plugins_set) : sort(a) = plugins
    /\ pc = "main" =>
          /\ Len(MainCalls) = Len(MainDone)
          /\ \A i \in DOMAIN MainDone : MainCalls[i].gen = MainArms[MainDone[i]]
          /\ (idx > 1 /\ Imds \in plugins_set) => calls[2].gen = "imds"

C20_Witness ==
    /\ pc = "main"
    /\ plugins_str = <<"ssm-agent", "imds">>
    /\ ~arch_is_nvidia
    /\ is_none(post_init_script)
    /\ idx = 3
    /\ plugins = <<Imds, SsmAgent>>
    /\ sort(<<SsmAgent, Imds>>) = plugins
    /\ MainCalls[1].gen = "imds"
    /\ MainCalls[2].gen = "ssm_agent"

(* C21: sorting is deterministic for every set of plugins: any two
   arrangements of the set (the HashSet can iterate in any order) sort to
   the same sequence, also when the set holds several Unknown values. *)
C21_SortDeterministic ==
    (pc = "prepared" /\ Cardinality(plugins_set) <= MaxSort) =>
        \A a \in arrangements(plugins_set) : \A b \in arrangements(plugins_set) :
            sort(a) = sort(b)

GeneratorFailed == pc = "returned" /\ result.tag = "Err" /\ result.err.kind = "Generator"

(* C22: when a generator returns an error, create returns that error at
   once: the failing generator is the last one invoked, and neither the
   plugin list nor any text of the script is returned. *)
C22_GeneratorFailureAborts ==
    GeneratorFailed =>
        /\ calls # <<>>
        /\ calls[Len(calls)].gen = result.err.msg
        /\ \A j \in 1..(Len(calls) - 1) : calls[j].gen # result.err.msg
        /\ result.plugins = <<>>
        /\ result.contents = <<>>
        /\ plugins = <<>>
        /\ contents = <<>>

(* a trigger of the bash profile fails in the main pass, with the bash
   profile and the epilogue still ahead *)
C22_Witness ==
    /\ GeneratorFailed
    /\ result.err.msg = "imds"
    /\ Len(calls) = 2
    /\ Requested("ssm-agent")

Reversed(s) == [j \in 1..Len(s) |-> s[Len(s) + 1 - j]]

(* C23: the outcome of create depends on the set of requested names and on
   the context only: the same names in reverse order, or each name given
   twice, select the same plugins under the same context. *)
C23_RequestOrderIrrelevant ==
    pc = "resolved" =>
        /\ ResolvedOf(Reversed(plugins_str)) = plugins_set
        /\ ResolvedOf(plugins_str \o plugins_str) = plugins_set

(* The rule table in the order of the claim: for the set S, whether the rule
   is violated and the message it reports. *)
Has(S, p) == contains(hash_coll, S, p)

RuleTable(S) ==
    << [bad |-> Has(S, AwsCfnHelper) /\ ~Has(S, Anaconda) /\ ~Has(S, Python),
        msg |-> "specified 'aws-cfn-helper' requires pip/python install plugin"],
       [bad |-> Has(S, EcrCredentialProvider) /\ ~Has(S, Go),
        msg |-> "'ecr-credential-provider' requires 'go' plugin"],
       [bad |-> Has(S, TimeSync) /\ ~Has(S, Imds),
        msg |-> "'time-sync' requires 'imds' plugin"],
       [bad |-> Has(S, Ena) /\ ~Has(S, Imds),
        msg |-> "'ena' requires 'imds' plugin"],
       [bad |-> Has(S, NvidiaCudaToolkit) /\ ~arch_is_nvidia,
        msg |-> "specified 'nvidia-cuda-toolkit' but arch type is 'other arch' (not nvidia)"],
       [bad |-> Has(S, NvidiaCudaToolkit) /\ ~Has(S, NvidiaDriver),
        msg |-> "specified 'nvidia-cuda-toolkit' but no 'nvidia-driver'"],
       [bad |-> Has(S, DevBark) /\ ~Has(S, StaticVolumeProvisioner),
        msg |-> "specified 'dev-bark' requires 'static-volume-provisioner'"],
       [bad |-> Has(S, DevFaissGpu) /\ ~Has(S, StaticVolumeProvisioner),
        msg |-> "specified 'dev-faiss-gpu' requires 'static-volume-provisioner'"],
       [bad |-> Has(S, EksWorkerNodeAmiScratch) /\ Has(S, EksWorkerNodeAmiReuse),
        msg |-> ConflictMsg] >>

Violated(S) == {k \in DOMAIN RuleTable(S) : RuleTable(S)[k].bad}

FirstViolated(S) == RuleTable(S)[Min(Violated(S))].msg

ValidationFailed == pc = "returned" /\ calls = <<>>

(* C24: when the resolved set violates several validation rules, create
   reports the first violated one in the order of the rule table
   (aws-cfn-helper, ecr-credential-provider/go, time-sync/imds, ena/imds,
   nvidia-cuda-toolkit arch, nvidia-cuda-toolkit driver, dev-bark,
   dev-faiss-gpu, scratch/reuse conflict), whatever the order of the
   request; a set that violates none passes validation. *)
C24_FirstViolatedRule ==
    LET S == ResolvedOf(plugins_str)
        R == ResolvedOf(Reversed(plugins_str))
    IN  /\ ValidationFailed =>
              /\ Violated(S) # {}
              /\ result.tag = "Err"
              /\ result.err = Error("InvalidInput", FirstViolated(S))
              /\ validate(hash_coll, R, arch_is_nvidia) = result.err
        /\ pc \in {"validated", "prepared", "main"} => Violated(S) = {}
        /\ (pc = "returned" /\ calls # <<>>) => Violated(S) = {}

(* the dev-bark and the time-sync rule are both violated, dev-bark comes
   first in the request, and the time-sync error is reported *)
C24_Witness ==
    /\ ValidationFailed
    /\ Cardinality(Violated(ResolvedOf(plugins_str))) >= 2
    /\ plugins_str = <<"dev-bark", "time-sync">>
    /\ result.err.msg = "'time-sync' requires 'imds' plugin"

(* The four resolution rules applied in the order the specification gives:
   accelerator driver, static IP, python removal, post-init script. *)
ResolvedInSpecOrder(strs) ==
    post_init_rule(hash_coll,
        anaconda_python_rule(hash_coll,
            static_ip_rule(hash_coll,
                nvidia_rule(hash_coll, parse_all(hash_coll, strs, {}),
                            arch_is_nvidia),
                require_static_ip_provisioner)),
        post_init_script)

(* C25: the set create assembles from (static IP, python removal, driver,
   and after validation post-init script) equals the set obtained by
   applying the four rules in the specified order (driver, static IP,
   python removal, post-init script); the returned list holds that set. *)
C25_ResolutionOrder ==
    /\ pc \in {"prepared", "main"} => plugins_set = ResolvedInSpecOrder(plugins_str)
    /\ Succeeded => Range(result.plugins) = ResolvedInSpecOrder(plugins_str)

(* all four rules act on one request *)
C25_Witness ==
    /\ Succeeded
    /\ arch_is_nvidia
    /\ require_static_ip_provisioner
    /\ is_some(post_init_script)
    /\ plugins_str = <<"static-volume-provisioner", "anaconda", "python">>
    /\ Range(result.plugins) =
          {StaticVolumeProvisioner, StaticIpProvisioner, Anaconda, NvidiaDriver,
           PostInitScript}

(* C26 as claimed: the set the validation rules read is the set the main
   pass works on; nothing is inserted or removed in between. *)
C26_SetUnchangedAfterValidation ==
    pc \in {"prepared", "main"} => plugins_set = ResolvedOf(plugins_str)


(* C26: between the validation rules and the main pass the only change to
   the set is the insertion of PostInitScript when a post-init script is
   supplied; nothing is removed, nothing else is inserted, and the set the
   main pass works on passes every validation rule. *)
C26_OnlyPostInitInsertedAfterValidation ==
    pc \in {"prepared", "main"} =>
        /\ ResolvedOf(plugins_str) \subseteq plugins_set
        /\ plugins_set \ ResolvedOf(plugins_str) \subseteq {PostInitScript}
        /\ is_none(post_init_script) => plugins_set = ResolvedOf(plugins_str)
        /\ validate(hash_coll, plugins_set, arch_is_nvidia) = NoError

(* a post-init script is supplied without the plugin being requested, on a
   request that a validation rule constrains *)
C26_Witness ==
    /\ pc = "main"
    /\ plugins_str = <<"imds", "time-sync">>
    /\ is_some(post_init_script)
    /\ PostInitScript \in plugins_set
    /\ PostInitScript \notin ResolvedOf(plugins_str)

(* C27: after resolution the set never holds both anaconda and python: when
   both are requested python is removed and anaconda kept, when only one is
   requested it is kept; the returned list never holds both. *)
C27_OneInterpreter ==
    /\ pc \in {"resolved", "validated", "prepared", "main"} =>
          /\ ~(Anaconda \in plugins_set /\ Python \in plugins_set)
          /\ Requested("anaconda") => Anaconda \in plugins_set
          /\ Requested("anaconda") => Python \notin plugins_set
          /\ (Requested("python") /\ ~Requested("anaconda")) => Python \in plugins_set
    /\ Succeeded => ~(InList(Anaconda) /\ InList(Python))

AfterResolution == pc \in {"resolved", "validated", "prepared", "main"}

(* C28: static-ip-provisioner is in the resolved set exactly when it was
   requested, or static-volume-provisioner is in the set and
   require_static_ip_provisioner is true; the switch alone inserts nothing. *)
C28_StaticIpRule ==
    /\ AfterResolution =>
          /\ StaticIpProvisioner \in plugins_set <=>
                \/ Requested("static-ip-provisioner")
                \/ (StaticVolumeProvisioner \in plugins_set
                    /\ require_static_ip_provisioner)
          /\ StaticVolumeProvisioner \in plugins_set
                <=> Requested("static-volume-provisioner")
    /\ Succeeded =>
          (InList(StaticIpProvisioner) <=>
              \/ Requested("static-ip-provisioner")
              \/ (Requested("static-volume-provisioner")
                  /\ require_static_ip_provisioner))

(* the rule has inserted StaticIpProvisioner, which was not requested *)
C28_Witness ==
    /\ Succeeded
    /\ plugins_str = <<"static-volume-provisioner">>
    /\ require_static_ip_provisioner
    /\ InList(StaticIpProvisioner)
    /\ PosOf("static_ip_provisioner") # {}

(* C29: on an nvidia architecture nvidia-driver is in the resolved set, and
   its fragment in every returned text, also when it was not requested; on
   any other architecture it is there only if requested. *)
C29_NvidiaDriverRule ==
    LET expected == arch_is_nvidia \/ Requested("nvidia-driver")
    IN  /\ AfterResolution => (NvidiaDriver \in plugins_set <=> expected)
        /\ Succeeded =>
              /\ InList(NvidiaDriver) <=> expected
              /\ Cardinality(PosOf("nvidia_driver")) = IF expected THEN 1 ELSE 0

(* nvidia-driver was not requested and its fragment is in the text *)
C29_Witness ==
    /\ Succeeded
    /\ arch_is_nvidia
    /\ plugins_str = <<"imds", "time-sync", "ssm-agent">>
    /\ InList(NvidiaDriver)
    /\ PosOf("nvidia_driver") # {}

PayloadPos ==
    {j \in DOMAIN Out : is_some(post_init_script)
                        /\ Out[j] = Literal(unwrap(post_init_script))}

(* C30: when a post-init script is supplied, post-init-script is in the
   returned list also when it was not requested, and the text of the script
   is in the returned text as given, exactly once, right under its header,
   after the cluster-info fragment and before the package cleanup; without a
   script no such text is returned. *)
C30_PostInitPayload ==
    /\ (Succeeded /\ is_some(post_init_script)) =>
          /\ InList(PostInitScript)
          /\ Cardinality(PayloadPos) = 1
          /\ \A j \in PayloadPos :
                /\ Out[j - 1] = PostInitHeader
                /\ \A c \in PosOf("cluster_info") : c < j
                /\ \A c \in PosOf("cleanup_image_packages") : j < c
                /\ \A m \in MarkerPos : j < m
                /\ \A i \in DOMAIN MainPlugins :
                      \A c \in PosOf(MainArms[MainPlugins[i]]) : c < j
    /\ (Succeeded /\ is_none(post_init_script)) =>
          /\ ~InList(PostInitScript)
          /\ \A j \in DOMAIN Out : Out[j] # PostInitHeader

(* the script is supplied, post-init-script is not requested, and cluster
   info and package cleanup are on either side of it *)
C30_Witness ==
    /\ Succeeded
    /\ plugins_str = <<"cleanup-image-packages", "cluster-info">>
    /\ is_some(post_init_script)
    /\ \E c \in PosOf("cluster_info") : \E j \in PayloadPos :
          \E d \in PosOf("cleanup_image_packages") : c < j /\ j < d

(* C31: a request with nvidia-cuda-toolkit or nvidia-container-toolkit
   fails validation when the arch is not nvidia or nvidia-driver is not in
   the resolved set: it never gets past the validation rules and create
   returns an InvalidInput error before any generator runs. *)
C31_ToolkitsGated ==
    ( /\ Requested("nvidia-cuda-toolkit") \/ Requested("nvidia-container-toolkit")
      /\ ~arch_is_nvidia \/ NvidiaDriver \notin ResolvedOf(plugins_str) ) =>
        /\ pc \in {"called", "parsed", "resolved", "returned"}
        /\ pc = "returned" =>
              /\ result.tag = "Err"
              /\ result.err.kind = "InvalidInput"
              /\ calls = <<>>

(* C32: a request with ssh-key-with-email and no email fails with an error
   and returns no script and no list, and the ssh_key_with_email generator
   is never called; the error is the empty-email error unless validation,
   an unknown name or a generator failed first.  With an email supplied the
   empty-email error is never returned. *)
C32_EmailRequired ==
    /\ EmailMissing =>
          /\ pc # "panicked"
          /\ "ssh_key_with_email" \notin GensInvoked
          /\ pc = "returned" =>
                /\ result.tag = "Err"
                /\ result.contents = <<>>
                /\ result.plugins = <<>>
                /\ ( result.err.kind \notin {"InvalidInput", "Generator"}
                     /\ UnknownRequested = {} ) => result.err.msg = EmailMsg
    /\ (pc = "returned" /\ result.err.msg = EmailMsg) => EmailMissing
    /\ (Succeeded /\ Requested("ssh-key-with-email")) =>
          /\ is_some(ssh_key_email)
          /\ Cardinality(PosOf("ssh_key_with_email")) = 1

C32_Witness ==
    /\ pc = "returned"
    /\ plugins_str = <<"ssh-key-with-email">>
    /\ is_none(ssh_key_email)
    /\ result.tag = "Err"
    /\ result.err.msg = EmailMsg

DevToolingRequested == Requested("dev-bark") \/ Requested("dev-faiss-gpu")

(* C33: a request with dev-bark or dev-faiss-gpu and without
   static-volume-provisioner fails validation; so whenever the dev_bark or
   the dev_faiss_gpu generator is called, the static volume flag it is
   given is true. *)
C33_DevToolingNeedsStaticVolume ==
    /\ (DevToolingRequested /\ ~Requested("static-volume-provisioner")) =>
          /\ pc \in {"called", "parsed", "resolved", "returned"}
          /\ pc = "returned" =>
                /\ result.tag = "Err"
                /\ result.err.kind = "InvalidInput"
                /\ calls = <<>>
    /\ \A j \in DOMAIN calls :
          /\ calls[j].gen = "dev_bark" => calls[j].args[2] = B(TRUE)
          /\ calls[j].gen = "dev_faiss_gpu" => calls[j].args[1] = B(TRUE)

(* dev-bark passed validation and its generator was called *)
C33_Witness ==
    /\ plugins_str = <<"dev-bark", "static-volume-provisioner">>
    /\ \E j \in DOMAIN calls : calls[j].gen = "dev_bark" /\ calls[j].args[2] = B(TRUE)

CfnMsg == "specified 'aws-cfn-helper' requires pip/python install plugin"

(* C34: a request with aws-cfn-helper fails validation when neither
   anaconda nor python is there, and does not fail on that rule when at
   least one of them was requested, both requested included. *)
C34_CfnHelperNeedsInterpreter ==
    Requested("aws-cfn-helper") =>
        /\ (~Requested("anaconda") /\ ~Requested("python")) =>
              /\ pc \in {"called", "parsed", "resolved", "returned"}
              /\ pc = "returned" =>
                    (result.tag = "Err" /\ result.err.msg = CfnMsg /\ calls = <<>>)
        /\ (Requested("anaconda") \/ Requested("python")) =>
              (pc = "returned" => result.err.msg # CfnMsg)

(* The text that shows a plugin in the script: its generator's fragment, or
   the header of the post-init script. *)
FragmentOf == MainArms @@ EpiloguePiece

IsPluginFragment(piece) ==
    IsFragment(piece) /\ \E p \in DOMAIN FragmentOf : FragmentOf[p] = piece.v

PluginFragments == SelectSeq(Out, IsPluginFragment)

IsGeneratorOfPlugin(c) == \E p \in DOMAIN FragmentOf : FragmentOf[p] = c.gen

PluginCalls == SelectSeq(calls, IsGeneratorOfPlugin)

ListedWithGenerator(p) == p # PostInitScript

(* C35: on success the returned list is exactly the plugins whose fragments
   are in the text: the plugin fragments of the text, main pass and
   epilogue together, are those of the listed plugins in the order of the
   list, each once, and the generators called for plugins are those of the
   listed plugins, each once, in that order (the post-init script has no
   generator). *)
C35_ListMatchesText ==
    Succeeded =>
        /\ \A i \in DOMAIN result.plugins : \A j \in DOMAIN result.plugins :
              i # j => result.plugins[i] # result.plugins[j]
        /\ \A i \in DOMAIN result.plugins : result.plugins[i] \in DOMAIN FragmentOf
        /\ Len(PluginFragments) = Len(result.plugins)
        /\ \A i \in DOMAIN result.plugins :
              PluginFragments[i].v = FragmentOf[result.plugins[i]]
        /\ LET withGen == SelectSeq(result.plugins, ListedWithGenerator)
           IN  /\ Len(PluginCalls) = Len(withGen)
               /\ \A i \in DOMAIN withGen : PluginCalls[i].gen = FragmentOf[withGen[i]]

(* every epilogue plugin and the post-init script in one text *)
C35_Witness ==
    /\ Succeeded
    /\ Len(result.plugins) = 7
    /\ InList(PostInitScript)
    /\ InList(CleanupImageSshKeys)
    /\ Len(PluginFragments) = 7

(* C36: create never aborts by unwrapping an absent optional input: for
   every request and every combination of optional inputs it returns Ok or
   Err. *)
C36_NeverPanics == pc # "panicked"

(* C37: the default request names only known plugins and passes every
   validation rule for every arch and every value of
   require_static_ip_provisioner, so create with the defaults returns an
   error only if a generator fails. *)
C37_DefaultsAreValid ==
    plugins_str = default =>
        /\ Range(default) \subseteq SerdeNames
        /\ pc \in {"resolved", "validated", "prepared", "main"} =>
              validate(hash_coll, plugins_set, arch_is_nvidia) = NoError
        /\ (pc = "returned" /\ result.tag = "Err") => result.err.kind = "Generator"

NoDriverMsgs ==
    { "specified 'nvidia-cuda-toolkit' but no 'nvidia-driver'",
      "specified 'nvidia-container-toolkit' but no 'nvidia-driver'" }

(* C40: the errors 'specified ... but no nvidia-driver' are unreachable:
   whenever validation comes to a check for the driver the arch is nvidia
   and NvidiaDriver is in the set; and the second nvidia-cuda-toolkit block
   never returns an error, since a set that reaches it has passed the same
   conditions in the first block. *)
C40_NoDriverErrorUnreachable ==
    /\ result.err.msg \notin NoDriverMsgs
    /\ pc = "resolved" =>
          /\ (Has(plugins_set, NvidiaCudaToolkit) /\ arch_is_nvidia)
                => Has(plugins_set, NvidiaDriver)
          /\ validate(hash_coll, plugins_set, arch_is_nvidia).msg \notin NoDriverMsgs
          /\ nvidia_cuda_toolkit_rule(hash_coll, plugins_set, arch_is_nvidia) = NoError
                => nvidia_cuda_toolkit_rule_again(hash_coll, plugins_set,
                                                  arch_is_nvidia) = NoError

(* validation comes to the driver check with the driver put in by the
   nvidia rule, and passes *)
C40_Witness ==
    /\ pc = "validated"
    /\ plugins_str = <<"nvidia-cuda-toolkit">>
    /\ arch_is_nvidia
    /\ NvidiaDriver \in plugins_set


(***************************************************************************)
(* Properties of the CloudWatch manager (checked under SpecCloudwatch).    *)
(***************************************************************************)
ResourceAlreadyExists == SdkError("ServiceError", "ResourceAlreadyExistsException")
ResourceNotFound == SdkError("ServiceError", "ResourceNotFoundException")

RECURSIVE Flatten(_)
Flatten(seqs) ==
    IF seqs = <<>> THEN <<>>
    ELSE Flatten(SubSeq(seqs, 1, Len(seqs) - 1)) \o seqs[Len(seqs)]

PutReturned == cw_op.name = "put_metric_data" /\ cw_pc = "idle"

NotAnswered == [variant |-> "", detail |-> ""]

RequestsNeeded(n) == IF n <= BATCH_SIZE THEN 1 ELSE (n + BATCH_SIZE - 1) \div BATCH_SIZE

(* C38: put_metric_data sends every datum once and in the order given, in
   requests of at most 950 data each: one request when n <= 950, otherwise
   ceil(n / 950) requests one after the other; when a request fails it
   returns Error::API at once, with the earlier batches sent and no later
   one. *)
C38_PutMetricDataBatches ==
    cw_op.name = "put_metric_data" =>
        LET n == Len(cw_data)
            sent == Flatten(cw_requests)
        IN  /\ \A j \in DOMAIN cw_requests : Len(cw_requests[j]) <= BATCH_SIZE
            /\ \A j \in 1..(Len(cw_requests) - 1) : Len(cw_requests[j]) = BATCH_SIZE
            /\ Len(sent) <= n
            /\ sent = SubSeq(cw_data, 1, Len(sent))
            /\ Len(cw_requests) <= RequestsNeeded(n)
            /\ (PutReturned /\ cw_result.tag = "Ok") =>
                  /\ sent = cw_data
                  /\ Len(cw_requests) = RequestsNeeded(n)
            /\ (PutReturned /\ cw_result.tag = "Err") =>
                  /\ cw_result = API("put_metric_data", cw_resp, cw_result.retryable)
                  /\ cw_resp # SendOk
                  /\ cw_requests # <<>>
            /\ PutReturned => cw_result.tag \in {"Ok", "Err"}
            /\ (cw_resp # SendOk /\ cw_resp # NotAnswered) => (PutReturned /\ cw_result.tag = "Err")

(* the second of four batches failed: two requests were sent, 1900 of the
   2851 data, and the call returned the error *)
C38_Witness ==
    /\ PutReturned
    /\ Len(cw_data) = 3 * BATCH_SIZE + 1
    /\ cw_result.tag = "Err"
    /\ Len(cw_requests) = 2
    /\ Flatten(cw_requests) = SubSeq(cw_data, 1, 2 * BATCH_SIZE)

(* C39: create_log_group returns Ok when the group already exists and
   delete_log_group returns Ok when the group does not exist, so repeated
   creates and repeated deletes succeed; every other error of the service
   comes back as Error::API. *)
C39_LogGroupIdempotent ==
    /\ cw_op.name = "create_log_group" =>
          /\ cw_result.tag = "Ok" <=> cw_resp \in {SendOk, ResourceAlreadyExists}
          /\ cw_result.tag # "Ok" =>
                cw_result = API("create_log_group", cw_resp, cw_result.retryable)
          /\ cw_resp = ResourceAlreadyExists => cw_op.arg \in cw_groups
    /\ cw_op.name = "delete_log_group" =>
          /\ cw_result.tag = "Ok" <=> cw_resp \in {SendOk, ResourceNotFound}
          /\ cw_result.tag # "Ok" =>
                cw_result = API("delete_log_group", cw_resp, cw_result.retryable)
          /\ cw_resp = ResourceNotFound => cw_op.arg \notin cw_groups

(* a second create of a group the service already holds returned Ok *)
C39_Witness ==
    /\ cw_calls = 2
    /\ cw_op = [name |-> "create_log_group", arg |-> "lg-a"]
    /\ cw_resp = ResourceAlreadyExists
    /\ "lg-a" \in cw_groups
    /\ cw_result = CwOk
====
